---- MODULE Spec2Model ----
(***************************************************************************)
(* A model of the EXIF metadata tool (metadata-viewer.js and its           *)
(* collaborators).                                                          *)
(*                                                                          *)
(* JavaScript values are records [t |-> <type tag>, v |-> <payload>]; the   *)
(* payload is a record whose fields the tag decides.  Numbers are exact rationals       *)
(* n/d (d > 0, lowest terms) or one of NaN, +Infinity, -Infinity.  Binary   *)
(* floating point rounding, overflow to Infinity and the sign of zero are   *)
(* not modelled.  A thrown exception is the value Threw.                    *)
(***************************************************************************)
EXTENDS Integers, Sequences, FiniteSets, TLC

VARIABLES
    coord,      \* SpecGPS: the coordinate argument
    ref,        \* SpecGPS: the hemisphere reference argument
    fmtOut,     \* SpecGPS: what formatGPSCoordinate(coord) produced
    decOut,     \* SpecGPS: what convertGPSToDecimal(coord, ref) produced
    simpleOut,  \* SpecVariants: what the simple formatGPSCoordinate(coord) produced
    exifObj,    \* SpecParse: the decoder's result given to parseExifData
    parsed,     \* SpecParse: what parseExifData(exifObj) produced
    shown,      \* SpecParse: the table displayMetadata rendered from it
    currentFile,        \* viewer: index in Files of this.currentFile, 0 for null
    currentImage,       \* viewer: pipeline whose img is this.currentImage, 0 for null
    currentImageUrl,    \* viewer: this.currentImageUrl, 0 for null
    currentMetadata,    \* viewer: this.currentMetadata
    fileInfo,           \* viewer: file whose name, size and type are displayed
    tbody,              \* viewer: the rendered metadata table
    notifications,      \* viewer: the notifications shown so far
    liveUrls,           \* viewer: the object URLs created and not revoked
    urlCount,           \* viewer: number of object URLs created
    pipes,              \* viewer: the handleFileSelection calls, by number
    exported,           \* viewer: the document exportMetadataAsJSON produced last
    remover,            \* remover: currentFile, cleanedFile, originalExifData,
                        \*          originalMetadataCount of the MetadataRemover
    removerDom,         \* remover: what its page elements show
    removerNotes,       \* remover: the notifications shown so far
    analyses,           \* remover: the handleFileSelection calls, by number
    cleanRuns,          \* remover: the cleanMetadata calls, by number
    fileName,           \* SpecNaming: the name of the file given to stripAllMetadata
    cleanedName,        \* SpecNaming: the name of the cleaned file it built
    sizes,              \* SpecSummary: the sizes of the original and cleaned file
    percentShown        \* SpecSummary: the p of 'File size reduced by p%'

gpsVars == <<coord, ref, fmtOut, decOut, simpleOut>>
parseVars == <<exifObj, parsed, shown>>
viewerVars == <<currentFile, currentImage, currentImageUrl, currentMetadata,
                fileInfo, tbody, notifications, liveUrls, urlCount, pipes, exported>>
removerVars == <<remover, removerDom, removerNotes, analyses, cleanRuns>>
namingVars == <<fileName, cleanedName>>
summaryVars == <<sizes, percentShown>>
vars == <<coord, ref, fmtOut, decOut, simpleOut, exifObj, parsed, shown,
          currentFile, currentImage, currentImageUrl, currentMetadata,
          fileInfo, tbody, notifications, liveUrls, urlCount, pipes, exported,
          remover, removerDom, removerNotes, analyses, cleanRuns,
          fileName, cleanedName, sizes, percentShown>>

\* the variables a specification leaves alone
notGPS == <<parseVars, viewerVars, removerVars, namingVars, summaryVars>>
notParse == <<gpsVars, viewerVars, removerVars, namingVars, summaryVars>>
notViewer == <<gpsVars, parseVars, removerVars, namingVars, summaryVars>>
notRemover == <<gpsVars, parseVars, viewerVars, namingVars, summaryVars>>
notNaming == <<gpsVars, parseVars, viewerVars, removerVars, summaryVars>>
notSummary == <<gpsVars, parseVars, viewerVars, removerVars, namingVars>>

----------------------------------------------------------------------------
(* Bounds of the explored inputs.                                          *)

MaxNumer == 1       \* numerators of the rational pairs range over 0..MaxNumer
MaxDenom == 2       \* denominators of the rational pairs range over 0..MaxDenom
MaxSelections == 2  \* file selections made in the viewer
MaxRemoverSelections == 2   \* file selections made in the remover
MaxCleanRuns == 2   \* clicks on the clean button
MaxNameLen == 4     \* characters of a file name
MaxSize == 8        \* bytes of the original and of the cleaned file

----------------------------------------------------------------------------
(* JavaScript values.                                                      *)

J(t, v) == [t |-> t, v |-> v]

Abs(x) == IF x < 0 THEN -x ELSE x

RECURSIVE GCD(_, _)
GCD(a, b) == IF b = 0 THEN a ELSE GCD(b, a % b)

LCM(a, b) == (a \div GCD(a, b)) * b

\* the finite number n/d, d > 0, in lowest terms
Fin(n, d) ==
    LET g == GCD(Abs(n), d)
    IN  J("number", [k |-> "fin", n |-> n \div g, d |-> d \div g])

Num(n) == Fin(n, 1)
NaN == J("number", [k |-> "nan", n |-> 0, d |-> 1])
Infinity == J("number", [k |-> "inf", n |-> 1, d |-> 1])
NegInfinity == J("number", [k |-> "inf", n |-> -1, d |-> 1])
Str(s) == J("string", [s |-> s])
Null == J("null", [z |-> 0])
Undefined == J("undefined", [z |-> 0])
Arr(s) == J("array", [a |-> s])
Obj(json) == J("object", [json |-> json])     \* a plain object, kept as its JSON text
Threw == J("throw", [error |-> "TypeError"])   \* an exception leaving the function

IsNumber(x) == x.t = "number"       \* typeof x === 'number'
IsArray(x) == x.t = "array"         \* Array.isArray(x)
IsFiniteNum(x) == x.t = "number" /\ x.v.k = "fin"
IsNaNNum(x) == x.t = "number" /\ x.v.k = "nan"
IsInfNum(x) == x.t = "number" /\ x.v.k = "inf"
Sign(n) == IF n > 0 THEN 1 ELSE IF n < 0 THEN -1 ELSE 0

\* Number(s) for the strings of the model: "" and decimal numerals convert,
\* every other string is NaN
NumericStrings ==
    ("" :> 0) @@ ("0" :> 0) @@ ("46" :> 46) @@ ("4" :> 4) @@ ("6" :> 6)

StringToNumber(s) ==
    IF s \in DOMAIN NumericStrings THEN Num(NumericStrings[s]) ELSE NaN

\* ToNumber, the coercion of isNaN, isFinite and the operator /
RECURSIVE ToNumber(_)
ToNumber(x) ==
    CASE x.t = "number"    -> x
      [] x.t = "string"    -> StringToNumber(x.v.s)
      [] x.t = "null"      -> Num(0)
      [] x.t = "undefined" -> NaN
      [] x.t = "array"     ->
            IF Len(x.v.a) = 0 THEN Num(0)
            ELSE IF Len(x.v.a) = 1
                 THEN IF x.v.a[1].t \in {"null", "undefined"} THEN Num(0)
                      ELSE ToNumber(x.v.a[1])
                 ELSE NaN                       \* "a,b" is no numeral
      [] OTHER             -> NaN               \* "[object Object]"

\* a / b on numbers
NumDiv(a, b) ==
    CASE a.v.k = "nan" \/ b.v.k = "nan" -> NaN
      [] a.v.k = "inf" /\ b.v.k = "inf" -> NaN
      [] a.v.k = "inf" /\ b.v.k = "fin" ->
            IF a.v.n * Sign(b.v.n) < 0 THEN NegInfinity ELSE Infinity
      [] a.v.k = "fin" /\ b.v.k = "inf" -> Num(0)
      [] OTHER ->
            IF b.v.n = 0
            THEN IF a.v.n = 0 THEN NaN
                 ELSE IF a.v.n > 0 THEN Infinity ELSE NegInfinity
            ELSE Fin(Sign(b.v.n) * a.v.n * b.v.d, Abs(b.v.n) * a.v.d)

\* x / y with both operands coerced
Div(x, y) == NumDiv(ToNumber(x), ToNumber(y))

\* a + b on numbers
NumAdd(a, b) ==
    CASE a.v.k = "nan" \/ b.v.k = "nan" -> NaN
      [] a.v.k = "inf" /\ b.v.k = "inf" -> IF a.v.n = b.v.n THEN a ELSE NaN
      [] a.v.k = "inf" -> a
      [] b.v.k = "inf" -> b
      [] OTHER ->
            LET l == LCM(a.v.d, b.v.d)
            IN  Fin(a.v.n * (l \div a.v.d) + b.v.n * (l \div b.v.d), l)

\* a * -1 on numbers
NumNeg(a) ==
    CASE a.v.k = "nan" -> NaN
      [] a.v.k = "inf" -> IF a.v.n > 0 THEN NegInfinity ELSE Infinity
      [] OTHER -> Fin(-a.v.n, a.v.d)

RECURSIVE Pow10(_)
Pow10(f) == IF f = 0 THEN 1 ELSE 10 * Pow10(f - 1)

\* the first f decimal digits of r/d (0 <= r < d) as an integer, and the
\* remainder that follows them, by long division
RECURSIVE FracDigits(_, _, _)
FracDigits(r, d, f) ==
    IF f = 0 THEN <<0, r>>
    ELSE LET rest == FracDigits((r * 10) % d, d, f - 1)
         IN  <<((r * 10) \div d) * Pow10(f - 1) + rest[1], rest[2]>>

\* Number.prototype.toFixed(f): the decimal numeral of x with f digits after
\* the point, rounded half away from zero; int and frac are the digits before
\* and after the point
ToFixed(x, f) ==
    CASE x.v.k = "nan" -> [k |-> "NaN", neg |-> FALSE, int |-> 0, frac |-> 0]
      [] x.v.k = "inf" -> [k |-> "Infinity", neg |-> x.v.n < 0, int |-> 0, frac |-> 0]
      [] OTHER ->
            LET a == Abs(x.v.n)
                fd == FracDigits(a % x.v.d, x.v.d, f)
                up == IF 2 * fd[2] >= x.v.d THEN 1 ELSE 0
                total == (a \div x.v.d) * Pow10(f) + fd[1] + up
            IN  [k |-> "fixed", neg |-> x.v.n < 0,
                 int |-> total \div Pow10(f), frac |-> total % Pow10(f)]

----------------------------------------------------------------------------
(* The GPS functions of MetadataViewer.                                    *)

convertRational(rational) ==
    IF ~IsArray(rational) \/ Len(rational.v.a) # 2 THEN Num(0)
    ELSE IF ~(IsFiniteNum(rational.v.a[2]) /\ rational.v.a[2].v.n = 0)
         THEN Div(rational.v.a[1], rational.v.a[2])
         ELSE Num(0)

\* sanitizeNumber with the isFinite test left out
sanitizeNumber_NaNOnly(num) ==
    IF ToNumber(num).v.k = "nan" THEN Num(0) ELSE num

sanitizeNumber(num) ==
    LET c == ToNumber(num)
    IN  IF c.v.k = "nan" \/ c.v.k # "fin" THEN Num(0) ELSE num

\* The result is the argument itself (not a 3-element array), Threw
\* (seconds.toFixed on a value that is no number), or the text
\* D M' S.SS" (X.XXXXXX), with the degree signs, kept as its four interpolated parts.
\* a formatter that divides the seconds by 60
formatGPSCoordinate_SecondsOver60(c) ==
    IF ~IsArray(c) \/ Len(c.v.a) # 3 THEN c
    ELSE LET raw == IF IsNumber(c.v.a[1])
                    THEN c.v.a
                    ELSE <<convertRational(c.v.a[1]), convertRational(c.v.a[2]),
                           convertRational(c.v.a[3])>>
             degrees == sanitizeNumber(raw[1])
             minutes == sanitizeNumber(raw[2])
             seconds == sanitizeNumber(raw[3])
             decimal == NumAdd(NumAdd(degrees, Div(minutes, Num(60))),
                               Div(seconds, Num(60)))
         IN  IF ~IsNumber(seconds) THEN Threw
             ELSE J("text", [degrees |-> degrees, minutes |-> minutes,
                             seconds |-> ToFixed(seconds, 2),
                             decimal |-> ToFixed(decimal, 6)])

formatGPSCoordinate(c) ==
    IF ~IsArray(c) \/ Len(c.v.a) # 3 THEN c
    ELSE LET raw == IF IsNumber(c.v.a[1])
                    THEN c.v.a
                    ELSE <<convertRational(c.v.a[1]), convertRational(c.v.a[2]),
                           convertRational(c.v.a[3])>>
             degrees == sanitizeNumber(raw[1])
             minutes == sanitizeNumber(raw[2])
             seconds == sanitizeNumber(raw[3])
             decimal == NumAdd(NumAdd(degrees, Div(minutes, Num(60))),
                               Div(seconds, Num(3600)))
         IN  IF ~IsNumber(seconds) THEN Threw
             ELSE J("text", [degrees |-> degrees, minutes |-> minutes,
                             seconds |-> ToFixed(seconds, 2),
                             decimal |-> ToFixed(decimal, 6)])

\* convertGPSToDecimal negating for "S" alone
convertGPSToDecimal_SouthOnly(c, r) ==
    IF ~IsArray(c) \/ Len(c.v.a) # 3 THEN Null
    ELSE LET raw == IF IsNumber(c.v.a[1])
                    THEN c.v.a
                    ELSE <<convertRational(c.v.a[1]), convertRational(c.v.a[2]),
                           convertRational(c.v.a[3])>>
             decimal == NumAdd(NumAdd(raw[1], Div(raw[2], Num(60))),
                               Div(raw[3], Num(3600)))
         IN  IF r.t = "string" /\ r.v.s = "S" THEN NumNeg(decimal) ELSE decimal

\* null, or the signed decimal degrees
convertGPSToDecimal(c, r) ==
    IF ~IsArray(c) \/ Len(c.v.a) # 3 THEN Null
    ELSE LET raw == IF IsNumber(c.v.a[1])
                    THEN c.v.a
                    ELSE <<convertRational(c.v.a[1]), convertRational(c.v.a[2]),
                           convertRational(c.v.a[3])>>
             decimal == NumAdd(NumAdd(raw[1], Div(raw[2], Num(60))),
                               Div(raw[3], Num(3600)))
         IN  IF r.t = "string" /\ r.v.s \in {"S", "W"} THEN NumNeg(decimal)
             ELSE decimal

\* a link built only for decimals that are truthy numbers: if (lat && lon)
addGPSMapLink_TruthyDecimals(latitude, longitude, latRef, lonRef) ==
    LET lat == convertGPSToDecimal(latitude, latRef)
        lon == convertGPSToDecimal(longitude, lonRef)
    IN  IF /\ lat.t # "null" /\ lat # Num(0)
           /\ lon.t # "null" /\ lon # Num(0)
        THEN J("html", [lat |-> lat, lon |-> lon,
                        latText |-> ToFixed(lat, 6), lonText |-> ToFixed(lon, 6)])
        ELSE Null

\* latitude, longitude and both hemisphere references to the map link, or
\* null; the link is kept as the two numbers it interpolates and their
\* toFixed(6) texts
addGPSMapLink(latitude, longitude, latRef, lonRef) ==
    LET lat == convertGPSToDecimal(latitude, latRef)
        lon == convertGPSToDecimal(longitude, lonRef)
    IN  IF lat.t # "null" /\ lon.t # "null"
        THEN J("html", [lat |-> lat, lon |-> lon,
                        latText |-> ToFixed(lat, 6), lonText |-> ToFixed(lon, 6)])
        ELSE Null

\* the characters of the strings of the model that are indexed
Characters == ("46" :> <<"4", "6">>) @@ ("abc" :> <<"a", "b", "c">>)

\* x[i] for i = 0 or 1: an element of an array, a character of a string,
\* undefined on a number or past the end, and a TypeError (Threw) on null or
\* undefined
At(x, i) ==
    CASE x.t = "array" -> IF i < Len(x.v.a) THEN x.v.a[i + 1] ELSE Undefined
      [] x.t = "string" ->
            IF i < Len(Characters[x.v.s]) THEN Str(Characters[x.v.s][i + 1])
            ELSE Undefined
      [] x.t \in {"null", "undefined"} -> Threw
      [] OTHER -> Undefined

\* The simple formatGPSCoordinate: each component is the quotient of its
\* first two elements, without a test of the denominator and without
\* sanitizing.  The result is the argument itself, Threw, or the text
\* D M' S.SS" kept as its three interpolated parts.
simpleFormatGPSCoordinate(c) ==
    IF ~IsArray(c) \/ Len(c.v.a) # 3 THEN c
    ELSE IF \E i \in 1..3 : c.v.a[i].t \in {"null", "undefined"} THEN Threw
    ELSE LET degrees == Div(At(c.v.a[1], 0), At(c.v.a[1], 1))
             minutes == Div(At(c.v.a[2], 0), At(c.v.a[2], 1))
             seconds == Div(At(c.v.a[3], 0), At(c.v.a[3], 1))
         IN  J("dms", [degrees |-> degrees, minutes |-> minutes,
                       seconds |-> ToFixed(seconds, 2)])

----------------------------------------------------------------------------
(* parseExifData.  A label is the sequence of its words; a directory is a  *)
(* function from tag ids to values; exifObj is a function from directory   *)
(* names to directories.                                                    *)

exifTags ==
    ("0th" :> (270 :> <<"Image", "Description">> @@ 271 :> <<"Camera", "Make">>
            @@ 272 :> <<"Camera", "Model">> @@ 274 :> <<"Orientation">>
            @@ 282 :> <<"X", "Resolution">> @@ 283 :> <<"Y", "Resolution">>
            @@ 296 :> <<"Resolution", "Unit">> @@ 305 :> <<"Software">>
            @@ 306 :> <<"Date/Time">> @@ 315 :> <<"Artist/Author">>
            @@ 33432 :> <<"Copyright">>))
 @@ ("Exif" :> (33434 :> <<"Exposure", "Time">> @@ 33437 :> <<"F-Number">>
            @@ 34850 :> <<"Exposure", "Program">> @@ 34855 :> <<"ISO", "Speed">>
            @@ 36864 :> <<"EXIF", "Version">>
            @@ 36867 :> <<"Date/Time", "Original">>
            @@ 36868 :> <<"Date/Time", "Digitized">>
            @@ 37377 :> <<"Shutter", "Speed", "(APEX)">>
            @@ 37378 :> <<"Aperture">> @@ 37380 :> <<"Exposure", "Bias">>
            @@ 37381 :> <<"Max", "Aperture">> @@ 37383 :> <<"Metering", "Mode">>
            @@ 37385 :> <<"Flash">> @@ 37386 :> <<"Focal", "Length">>
            @@ 37520 :> <<"Subsec", "Time">>
            @@ 37521 :> <<"Subsec", "Time", "Original">>
            @@ 37522 :> <<"Subsec", "Time", "Digitized">>
            @@ 40960 :> <<"FlashPix", "Version">> @@ 40961 :> <<"Color", "Space">>
            @@ 40962 :> <<"Pixel", "X", "Dimension">>
            @@ 40963 :> <<"Pixel", "Y", "Dimension">>
            @@ 41486 :> <<"Focal", "Plane", "X", "Resolution">>
            @@ 41487 :> <<"Focal", "Plane", "Y", "Resolution">>
            @@ 41495 :> <<"Sensing", "Method">> @@ 41728 :> <<"File", "Source">>
            @@ 41729 :> <<"Scene", "Type">> @@ 41985 :> <<"Custom", "Rendered">>
            @@ 41986 :> <<"Exposure", "Mode">> @@ 41987 :> <<"White", "Balance">>
            @@ 41988 :> <<"Digital", "Zoom", "Ratio">>
            @@ 41989 :> <<"Focal", "Length", "(35mm)">>
            @@ 41990 :> <<"Scene", "Capture", "Type">>
            @@ 41991 :> <<"Gain", "Control">> @@ 41992 :> <<"Contrast">>
            @@ 41993 :> <<"Saturation">> @@ 41994 :> <<"Sharpness">>
            @@ 42016 :> <<"Image", "Unique", "ID">>))
 @@ ("GPS" :> (0 :> <<"GPS", "Version">> @@ 1 :> <<"GPS", "Latitude", "Ref">>
            @@ 2 :> <<"GPS", "Latitude">> @@ 3 :> <<"GPS", "Longitude", "Ref">>
            @@ 4 :> <<"GPS", "Longitude">> @@ 5 :> <<"GPS", "Altitude", "Ref">>
            @@ 6 :> <<"GPS", "Altitude">> @@ 7 :> <<"GPS", "Timestamp">>
            @@ 18 :> <<"GPS", "Map", "Datum">> @@ 29 :> <<"GPS", "Date">>))

\* the order in which for..in visits the keys of exifTags
IFDs == <<"0th", "Exif", "GPS">>

LocationLabel == <<"[pin]", "Location", "on", "Map">>

\* exifTags[ifd][tag] || `${ifd} Tag ${tag}`
tagName(ifd, tag) ==
    IF tag \in DOMAIN exifTags[ifd] THEN exifTags[ifd][tag]
    ELSE <<ifd, "Tag", ToString(tag)>>

\* String(x), for the values of the model (a fraction is written n/d)
RECURSIVE ToStringJS(_)
RECURSIVE JoinWith(_, _)
ToStringJS(x) ==
    CASE x.t = "string" -> x.v.s
      [] x.t = "number" ->
            IF x.v.k = "nan" THEN "NaN"
            ELSE IF x.v.k = "inf"
                 THEN (IF x.v.n < 0 THEN "-Infinity" ELSE "Infinity")
                 ELSE IF x.v.d = 1 THEN ToString(x.v.n)
                      ELSE ToString(x.v.n) \o "/" \o ToString(x.v.d)
      [] x.t = "null" -> "null"
      [] x.t = "undefined" -> "undefined"
      [] x.t = "array" -> JoinWith(x.v.a, ",")
      [] OTHER -> "[object Object]"

\* Array.prototype.join(sep): null and undefined elements give ''
JoinWith(seq, sep) ==
    IF seq = <<>> THEN ""
    ELSE LET h == IF Head(seq).t \in {"null", "undefined"} THEN ""
                  ELSE ToStringJS(Head(seq))
         IN  IF Len(seq) = 1 THEN h ELSE h \o sep \o JoinWith(Tail(seq), sep)

\* the value of a tag as it is displayed
formatValue(ifd, tag, value) ==
    IF IsArray(value)
    THEN IF ifd = "GPS" /\ tag \in {2, 4}
         THEN formatGPSCoordinate(value)
         ELSE Str(JoinWith(value.v.a, ", "))
    ELSE IF value.t = "null" THEN Str("null")       \* typeof null === 'object'
         ELSE IF value.t = "object" THEN Str(value.v.json)
              ELSE value

\* value !== undefined && value !== null && value !== ''
IsKept(value) ==
    ~(value.t \in {"undefined", "null"} \/ (value.t = "string" /\ value.v.s = ""))

\* if (x): an array or an object is truthy, also when empty
Truthy(x) ==
    CASE x.t \in {"null", "undefined"} -> FALSE
      [] x.t = "string" -> x.v.s # ""
      [] x.t = "number" -> ~(x.v.k = "nan" \/ (x.v.k = "fin" /\ x.v.n = 0))
      [] OTHER -> TRUE

RECURSIVE SortedSeq(_)
SortedSeq(S) ==
    IF S = {} THEN <<>>
    ELSE LET m == CHOOSE x \in S : \A y \in S : x <= y
         IN  <<m>> \o SortedSeq(S \ {m})

\* metadata[tagName] = value, done only for a value that is kept
setField(metadata, label, value) ==
    IF IsKept(value) THEN (label :> value) @@ metadata ELSE metadata

\* the inner loop: for...in visits the integer keys of a directory in
\* ascending order
RECURSIVE parseDirectory(_, _, _, _)
parseDirectory(ifd, dir, tags, metadata) ==
    IF tags = <<>> THEN metadata
    ELSE parseDirectory(ifd, dir, Tail(tags),
            setField(metadata, tagName(ifd, Head(tags)),
                     formatValue(ifd, Head(tags), dir[Head(tags)])))

\* the loop over ['0th', 'Exif', 'GPS'], skipping a directory that is missing
RECURSIVE parseDirectories(_, _, _)
parseDirectories(obj, ifds, metadata) ==
    IF ifds = <<>> THEN metadata
    ELSE parseDirectories(obj, Tail(ifds),
            IF Head(ifds) \in DOMAIN obj
            THEN parseDirectory(Head(ifds), obj[Head(ifds)],
                                SortedSeq(DOMAIN obj[Head(ifds)]), metadata)
            ELSE metadata)

\* some tag's formatting throws, which ends the loop and parseExifData
parseThrows(obj) ==
    \E ifd \in DOMAIN obj : \E tag \in DOMAIN obj[ifd] :
        formatValue(ifd, tag, obj[ifd][tag]).t = "throw"

\* the GPS value remembered for the map link, null when the tag is absent
gpsValue(obj, tag) ==
    IF "GPS" \in DOMAIN obj /\ tag \in DOMAIN obj["GPS"] THEN obj["GPS"][tag]
    ELSE Null

\* if (gpsLat && gpsLon) { mapLink = addGPSMapLink(..); if (mapLink) .. }
addLocation(metadata, gpsLat, gpsLon, mapLink) ==
    IF Truthy(gpsLat) /\ Truthy(gpsLon) /\ mapLink.t # "null"
    THEN (LocationLabel :> mapLink) @@ metadata
    ELSE metadata

\* parseExifData asking for both hemisphere references before it links
parseExifData_NeedsRefs(obj) ==
    IF parseThrows(obj) THEN [threw |-> TRUE, fields |-> <<>>]
    ELSE [threw |-> FALSE,
          fields |-> addLocation(parseDirectories(obj, IFDs, <<>>),
                        IF Truthy(gpsValue(obj, 1)) THEN gpsValue(obj, 2) ELSE Null,
                        IF Truthy(gpsValue(obj, 3)) THEN gpsValue(obj, 4) ELSE Null,
                        addGPSMapLink(gpsValue(obj, 2), gpsValue(obj, 4),
                                      gpsValue(obj, 1), gpsValue(obj, 3)))]

\* threw: an exception left parseExifData; fields: the metadata object
parseExifData(obj) ==
    IF parseThrows(obj) THEN [threw |-> TRUE, fields |-> <<>>]
    ELSE [threw |-> FALSE,
          fields |-> addLocation(parseDirectories(obj, IFDs, <<>>),
                        gpsValue(obj, 2), gpsValue(obj, 4),
                        addGPSMapLink(gpsValue(obj, 2), gpsValue(obj, 4),
                                      gpsValue(obj, 1), gpsValue(obj, 3)))]

----------------------------------------------------------------------------
(* The basic section and the rendered table.                               *)

\* MetadataTool.formatFileSize: '0 Bytes', or bytes / 1024^i with two decimals
\* and the unit sizes[i], i = floor(log(bytes) / log(1024))
formatFileSize(bytes) ==
    IF bytes = 0 THEN [value |-> ToFixed(Num(0), 0), unit |-> "Bytes"]
    ELSE LET i == IF bytes < 1024 THEN 0
                  ELSE IF bytes < 1024 * 1024 THEN 1
                       ELSE IF bytes < 1024 * 1024 * 1024 THEN 2 ELSE 3
             k == IF i = 0 THEN 1
                  ELSE IF i = 1 THEN 1024
                       ELSE IF i = 2 THEN 1024 * 1024 ELSE 1024 * 1024 * 1024
         IN  [value |-> ToFixed(Fin(bytes, k), 2),
              unit |-> <<"Bytes", "KB", "MB", "GB">>[i + 1]]

getBasicMetadata(file) ==
    (<<"File", "Name">> :> Str(file.name))
 @@ (<<"File", "Size">> :> J("size", formatFileSize(file.size)))
 @@ (<<"MIME", "Type">> :> Str(IF file.type = "" THEN "Unknown" ELSE file.type))
 @@ (<<"Last", "Modified">> :> J("date", [ms |-> file.lastModified]))

\* key.startsWith('GPS'), on a label kept as its words
startsWithGPS(label) == Head(label) = "GPS"

\* The number of elements the HTML parser creates from a string of the model
\* that is assigned to innerHTML: a string without a tag gives text only.
MarkupStrings ==
    ("<img src=x onerror=alert(1)>" :> 1) @@ ("<b>photo</b>.jpg" :> 1)

\* addMetadataRows: the elements that row.innerHTML = `<td>..</td><td>${value}</td>`
\* creates inside the value cell.  The value is interpolated as it is: the
\* map link is an <a> element, a string is parsed as HTML, a number or a
\* formatted coordinate holds no tag.
cellElements(value) ==
    CASE value.t = "html" -> 1
      [] value.t = "string" ->
            IF value.v.s \in DOMAIN MarkupStrings THEN MarkupStrings[value.v.s] ELSE 0
      [] OTHER -> 0

\* displayMetadata looking for the two coordinate rows instead of the prefix
displayMetadata_ExactGPSKeys(metadata) ==
    IF DOMAIN metadata.exif # {}
    THEN [basic |-> metadata.basic, exif |-> metadata.exif,
          locationNotice |->
              ~(\E key \in DOMAIN metadata.exif :
                    key \in {<<"GPS", "Latitude">>, <<"GPS", "Longitude">>}),
          noExifRow |-> FALSE]
    ELSE [basic |-> metadata.basic, exif |-> <<>>,
          locationNotice |-> FALSE, noExifRow |-> TRUE]

\* The table body after displayMetadata: the basic rows, the EXIF rows when
\* there are any, and which of the two notice rows was appended.
displayMetadata(metadata) ==
    IF DOMAIN metadata.exif # {}
    THEN [basic |-> metadata.basic, exif |-> metadata.exif,
          locationNotice |-> ~(\E key \in DOMAIN metadata.exif : startsWithGPS(key)),
          noExifRow |-> FALSE]
    ELSE [basic |-> metadata.basic, exif |-> <<>>,
          locationNotice |-> FALSE, noExifRow |-> TRUE]

----------------------------------------------------------------------------
(* The viewer's pipeline: handleFileSelection, displayFileInfo and         *)
(* extractRealMetadata.  A file is a record of its attributes, of whether   *)
(* the browser can decode it as an image, and of what piexif.load does on   *)
(* its data: return the directories, or throw a value.                      *)

\* a limit one byte lower
MAX_FILE_SIZE_OneLess == 50 * 1024 * 1024 - 1

MAX_FILE_SIZE == 50 * 1024 * 1024

ACCEPTED_TYPES == {"image/jpeg", "image/jpg", "image/png"}

\* String.prototype.toLowerCase, for the MIME types of the model
toLowerCase(str) ==
    CASE str = "IMAGE/JPEG" -> "image/jpeg"
      [] str = "Image/PNG" -> "image/png"
      [] OTHER -> str

\* error.message.includes('JPEG'), for the messages of the model
includesJPEG(message) == message \in {"Given data isn't JPEG."}

NoMetadata == [isNull |-> TRUE, basic |-> <<>>, exif |-> <<>>, rawExif |-> FALSE]

\* The catch block of extractRealMetadata.  An Error has a message, and the
\* promise resolves with the basic section only, after a warning.  A thrown
\* value without a message makes error.message.includes a TypeError: the
\* handler dies and the promise stays pending (settled is FALSE).
catchDecodeError(basic, error) ==
    IF error.t = "error"
    THEN [settled |-> TRUE,
          metadata |-> [isNull |-> FALSE, basic |-> basic,
                        exif |-> <<>>, rawExif |-> FALSE],
          warning |-> IF includesJPEG(error.v.message)
                      THEN "This image format may not contain EXIF data"
                      ELSE "Unable to read metadata from this file"]
    ELSE [settled |-> FALSE, metadata |-> NoMetadata, warning |-> ""]

\* the try block after piexif.load returned: parseExifData, then resolve
resolveParsed(basic, exif) ==
    IF exif.threw
    THEN catchDecodeError(basic,
             J("error", [message |-> "seconds.toFixed is not a function"]))
    ELSE [settled |-> TRUE,
          metadata |-> [isNull |-> FALSE, basic |-> basic,
                        exif |-> exif.fields, rawExif |-> TRUE],
          warning |-> ""]

\* what the promise of extractRealMetadata does once the file is read
extractRealMetadata(file) ==
    IF file.decoded.kind = "exif"
    THEN resolveParsed(getBasicMetadata(file), parseExifData(file.decoded.exif))
    ELSE catchDecodeError(getBasicMetadata(file), file.decoded.thrown)

----------------------------------------------------------------------------
(* The state of a specification's variables before anything was called, and *)
(* the values the variables of the other specifications keep.               *)

NotCalled == J("none", [z |-> 0])
NotParsed == [called |-> FALSE, threw |-> FALSE, fields |-> <<>>]
EmptyTable ==
    [basic |-> <<>>, exif |-> <<>>, locationNotice |-> FALSE, noExifRow |-> FALSE]
NotShown == [called |-> FALSE, table |-> EmptyTable]

IdleGPS ==
    /\ coord = Null
    /\ ref = Null
    /\ fmtOut = NotCalled
    /\ decOut = NotCalled
    /\ simpleOut = NotCalled

IdleParse ==
    /\ exifObj = <<>>
    /\ parsed = NotParsed
    /\ shown = NotShown

UnusedPipe == [pc |-> "unused", file |-> 0, url |-> 0, metadata |-> NoMetadata]
NoInfo == [file |-> 0, dimensions |-> 0, preview |-> <<>>, sectionShown |-> FALSE]
NoTable == [rendered |-> FALSE, by |-> 0, table |-> EmptyTable]
NoDocument == [made |-> FALSE, file |-> 0, basicInfo |-> <<>>, exifData |-> <<>>]

\* the viewer after its constructor
InitViewer ==
    /\ currentFile = 0
    /\ currentImage = 0
    /\ currentImageUrl = 0
    /\ currentMetadata = NoMetadata
    /\ fileInfo = NoInfo
    /\ tbody = NoTable
    /\ notifications = {}
    /\ liveUrls = {}
    /\ urlCount = 0
    /\ pipes = [p \in 1..MaxSelections |-> UnusedPipe]
    /\ exported = NoDocument

NoCleanedFile == [of |-> 0, run |-> 0]
NoExifData == [isNull |-> TRUE, fields |-> 0]
UnusedAnalysis == [pc |-> "unused", file |-> 0]
UnusedRun == [pc |-> "unused", file |-> 0, remaining |-> -1]

\* the remover after its constructor; the processing and result sections are
\* taken to be hidden until the code shows them.  removerDom.liveUrls holds the
\* object URLs displayResults created and nothing revoked, each named by the
\* run that created it
InitRemover ==
    /\ remover = [currentFile |-> 0, cleanedFile |-> NoCleanedFile,
                  originalExifData |-> NoExifData, originalMetadataCount |-> 0]
    /\ removerDom = [fileInfo |-> 0, processingSection |-> FALSE,
                     resultSection |-> FALSE, found |-> -1, before |-> -1,
                     after |-> -1, original |-> 0, download |-> NoCleanedFile,
                     button |-> "enabled", liveUrls |-> {}]
    /\ removerNotes = {}
    /\ analyses = [a \in 1..MaxRemoverSelections |-> UnusedAnalysis]
    /\ cleanRuns = [r \in 1..MaxCleanRuns |-> UnusedRun]

IdleNaming ==
    /\ fileName = <<>>
    /\ cleanedName = <<>>

IdleSummary ==
    /\ sizes = [original |-> 0, cleaned |-> 0]
    /\ percentShown = NotCalled

----------------------------------------------------------------------------
(* SpecGPS: the GPS functions applied to every coordinate of GPSCoords.    *)

PlainComponents ==
    {Num(0), Num(1), NaN, Infinity, Str("46"), Str("abc"), Null}

RationalPairs ==
    {Arr(<<Num(n), Num(d)>>) : n \in 0..MaxNumer, d \in 0..MaxDenom}

MalformedPairs ==
    {Arr(<<Str("abc"), Num(1)>>), Arr(<<Num(1), Str("0")>>), Arr(<<Num(1)>>)}

GPSComponents == PlainComponents \cup RationalPairs \cup MalformedPairs

\* 40 deg 26' 46.30", the triple [[40,1],[26,1],[4630,100]]
ExampleTriple ==
    Arr(<<Arr(<<Num(40), Num(1)>>), Arr(<<Num(26), Num(1)>>),
          Arr(<<Num(4630), Num(100)>>)>>)

GPSCoords ==
    {Arr(<<a, b, c>>) : a \in GPSComponents, b \in GPSComponents,
                        c \in GPSComponents}
    \cup {Arr(<<>>), Arr(<<Num(1), Num(1)>>),
          Arr(<<Num(1), Num(1), Num(1), Num(1)>>), Null, Str("46"), Num(1)}
    \cup {ExampleTriple}

GPSRefs == {Str("N"), Str("S"), Str("E"), Str("W"), Str("s"), Null}

InitGPS ==
    /\ coord \in GPSCoords
    /\ ref \in GPSRefs
    /\ fmtOut = NotCalled
    /\ decOut = NotCalled
    /\ simpleOut = NotCalled
    /\ IdleParse
    /\ InitViewer
    /\ InitRemover
    /\ IdleNaming
    /\ IdleSummary

CallFormat ==
    /\ fmtOut = NotCalled
    /\ fmtOut' = formatGPSCoordinate(coord)
    /\ UNCHANGED <<coord, ref, decOut, simpleOut>>
    /\ UNCHANGED notGPS

CallConvert ==
    /\ decOut = NotCalled
    /\ decOut' = convertGPSToDecimal(coord, ref)
    /\ UNCHANGED <<coord, ref, fmtOut, simpleOut>>
    /\ UNCHANGED notGPS

NextGPS == CallFormat \/ CallConvert

SpecGPS == InitGPS /\ [][NextGPS]_vars

----------------------------------------------------------------------------
(* SpecVariants: the two variants of formatGPSCoordinate applied to every  *)
(* coordinate of GPSCoords.                                                 *)

InitVariants ==
    /\ coord \in GPSCoords
    /\ ref = Null
    /\ fmtOut = NotCalled
    /\ decOut = NotCalled
    /\ simpleOut = NotCalled
    /\ IdleParse
    /\ InitViewer
    /\ InitRemover
    /\ IdleNaming
    /\ IdleSummary

CallSimpleFormat ==
    /\ simpleOut = NotCalled
    /\ simpleOut' = simpleFormatGPSCoordinate(coord)
    /\ UNCHANGED <<coord, ref, fmtOut, decOut>>
    /\ UNCHANGED notGPS

NextVariants == CallFormat \/ CallSimpleFormat

SpecVariants == InitVariants /\ [][NextVariants]_vars

----------------------------------------------------------------------------
(* SpecParse: parseExifData applied to every decoder result of ExifObjects, *)
(* and displayMetadata applied to what it returns.                          *)

\* a tag that the directory does not hold
Absent == J("absent", [z |-> 0])
Opt(S) == S \cup {Absent}

\* the directory holding the tags of f that are not Absent
MkDir(f) == [t \in {u \in DOMAIN f : f[u].t # "absent"} |-> f[t]]

TagValues ==
    {Str("x"), Str(""), Str("<img src=x onerror=alert(1)>"), Null, Undefined,
     Num(0), Arr(<<>>), Arr(<<Num(1), Num(2)>>), Obj("{}")}

RationalTriple ==
    Arr(<<Arr(<<Num(1), Num(1)>>), Arr(<<Num(1), Num(1)>>),
          Arr(<<Num(MaxNumer), Num(MaxDenom)>>)>>)

\* the origin as rational pairs: [[0,1],[0,1],[0,1]]
ZeroRationalTriple ==
    Arr(<<Arr(<<Num(0), Num(1)>>), Arr(<<Num(0), Num(1)>>),
          Arr(<<Num(0), Num(1)>>)>>)

LatValues ==
    {RationalTriple, ZeroRationalTriple,
     Arr(<<Num(0), Num(0), Num(0)>>),
     Arr(<<Num(0), Num(0), Str("46")>>),
     Arr(<<Arr(<<Num(1), Num(0)>>), Arr(<<Num(0), Num(0)>>),
           Arr(<<Num(0), Num(1)>>)>>),
     Arr(<<>>), Arr(<<Num(1), Num(1)>>), Null, Str("x")}

LonValues ==
    {RationalTriple, ZeroRationalTriple, Arr(<<Num(0), Num(0), Num(0)>>),
     Arr(<<>>), Str("")}

ZerothDirs == {MkDir(271 :> a) : a \in Opt(TagValues)}

ExifDirs ==
    {MkDir(33434 :> a @@ 99999 :> b) :
        a \in Opt({Arr(<<Num(1), Num(2)>>), Str("")}), b \in Opt({Str("x")})}

GPSDirs ==
    {MkDir(1 :> a @@ 2 :> b @@ 3 :> c @@ 4 :> d @@ 99999 :> e) :
        a \in Opt({Str("S"), Str("N")}), b \in Opt(LatValues),
        c \in Opt({Str("W"), Str("E")}),
        d \in Opt(LonValues), e \in Opt({Str("x")})}

\* all three directories, or (a decoder result without them) the first alone
ExifObjects ==
    {("0th" :> z) @@ ("Exif" :> e) @@ ("GPS" :> g) :
        z \in ZerothDirs, e \in ExifDirs, g \in GPSDirs}
    \cup {("0th" :> z) : z \in ZerothDirs}

SampleFile ==
    [name |-> "photo.jpg", type |-> "image/jpeg", size |-> 2048, lastModified |-> 1]

\* a file whose name holds the characters of a tag
MarkupNamedFile ==
    [name |-> "<b>photo</b>.jpg", type |-> "image/jpeg", size |-> 2048,
     lastModified |-> 1]

InitParse ==
    /\ exifObj \in ExifObjects
    /\ parsed = NotParsed
    /\ shown = NotShown
    /\ IdleGPS
    /\ InitViewer
    /\ InitRemover
    /\ IdleNaming
    /\ IdleSummary

CallParse ==
    /\ ~parsed.called
    /\ parsed' = [called |-> TRUE] @@ parseExifData(exifObj)
    /\ UNCHANGED <<exifObj, shown>>
    /\ UNCHANGED notParse

CallDisplay ==
    /\ parsed.called /\ ~parsed.threw /\ ~shown.called
    /\ \E file \in {SampleFile, MarkupNamedFile} :
          shown' = [called |-> TRUE,
                    table |-> displayMetadata([basic |-> getBasicMetadata(file),
                                               exif |-> parsed.fields])]
    /\ UNCHANGED <<exifObj, parsed>>
    /\ UNCHANGED notParse

NextParse == CallParse \/ CallDisplay

SpecParse == InitParse /\ [][NextParse]_vars

----------------------------------------------------------------------------
(* Spec: the viewer.  Files are selected one after another, each selection  *)
(* starting a handleFileSelection call whose stages complete in any order.  *)

Decoded(obj) == [kind |-> "exif", exif |-> obj, thrown |-> Null]
Throws(value) == [kind |-> "throw", exif |-> <<>>, thrown |-> value]
Error(message) == J("error", [message |-> message])

EmptyDirectories == ("0th" :> <<>>) @@ ("Exif" :> <<>>) @@ ("GPS" :> <<>>)

Files ==
    << [name |-> "photo.jpg", type |-> "image/jpeg", size |-> 2048,
        lastModified |-> 1, image |-> "ok",
        decoded |-> Decoded(("0th" :> (271 :> Str("x"))) @@ ("Exif" :> <<>>)
                         @@ ("GPS" :> (1 :> Str("S") @@ 2 :> RationalTriple
                                    @@ 3 :> Str("W") @@ 4 :> RationalTriple)))],
       [name |-> "plain.jpg", type |-> "image/jpeg", size |-> 0,
        lastModified |-> 2, image |-> "ok", decoded |-> Decoded(EmptyDirectories)],
       [name |-> "scan.png", type |-> "Image/PNG", size |-> MAX_FILE_SIZE,
        lastModified |-> 3, image |-> "ok",
        decoded |-> Throws(Error("'load' gots invalid file data."))],
       [name |-> "old.jpg", type |-> "image/jpg", size |-> 1024,
        lastModified |-> 4, image |-> "ok",
        decoded |-> Throws(Error("Given data isn't JPEG."))],
       [name |-> "odd.jpg", type |-> "image/jpeg", size |-> 1024,
        lastModified |-> 5, image |-> "ok",
        decoded |-> Throws(Str("invalid file data"))],
       [name |-> "broken.jpg", type |-> "image/jpeg", size |-> 1024,
        lastModified |-> 6, image |-> "corrupt",
        decoded |-> Throws(Error("'load' gots invalid file data."))],
       [name |-> "notes.txt", type |-> "text/plain", size |-> 10,
        lastModified |-> 7, image |-> "corrupt",
        decoded |-> Throws(Error("'load' gots invalid file data."))],
       [name |-> "huge.jpg", type |-> "image/jpeg", size |-> MAX_FILE_SIZE + 1,
        lastModified |-> 8, image |-> "ok", decoded |-> Decoded(EmptyDirectories)],
       [name |-> "camera.jpg", type |-> "IMAGE/JPEG", size |-> 4096,
        lastModified |-> 9, image |-> "ok",
        decoded |-> Decoded(("0th" :> (271 :> Str("x"))) @@ ("Exif" :> <<>>)
                         @@ ("GPS" :> <<>>))],
       [name |-> "badgps.jpg", type |-> "image/jpeg", size |-> 4096,
        lastModified |-> 10, image |-> "ok",
        decoded |-> Decoded(("0th" :> (271 :> Str("x"))) @@ ("Exif" :> <<>>)
                         @@ ("GPS" :> (2 :> Arr(<<Num(0), Num(0), Str("46")>>))))] >>

Notify(pid, type, message) == [pid |-> pid, type |-> type, message |-> message]

\* a selection that creates the new preview URL without revoking the previous
\* one
SelectFile_KeepsPreviousUrl(f) ==
    \E pid \in 1..MaxSelections :
        /\ pipes[pid].pc = "unused"
        /\ \A q \in 1..(pid - 1) : pipes[q].pc # "unused"
        /\ LET file == Files[f]
           IN  IF toLowerCase(file.type) \notin ACCEPTED_TYPES
               THEN /\ notifications' = notifications \cup
                          {Notify(pid, "error",
                             "Please select a valid image file (JPG, JPEG, or PNG)")}
                    /\ pipes' = [pipes EXCEPT ![pid] =
                                    [UnusedPipe EXCEPT !.pc = "rejected", !.file = f]]
                    /\ UNCHANGED <<currentFile, currentImage, currentImageUrl,
                                   currentMetadata, fileInfo, tbody, liveUrls, urlCount>>
               ELSE IF file.size > MAX_FILE_SIZE
               THEN /\ notifications' = notifications \cup
                          {Notify(pid, "error", "File is too large. Maximum size is 50MB")}
                    /\ pipes' = [pipes EXCEPT ![pid] =
                                    [UnusedPipe EXCEPT !.pc = "rejected", !.file = f]]
                    /\ UNCHANGED <<currentFile, currentImage, currentImageUrl,
                                   currentMetadata, fileInfo, tbody, liveUrls, urlCount>>
               ELSE /\ currentFile' = f
                    /\ fileInfo' = [fileInfo EXCEPT !.file = f, !.preview = <<>>]
                    /\ urlCount' = urlCount + 1
                    /\ currentImageUrl' = urlCount + 1
                    /\ liveUrls' = liveUrls \cup {urlCount + 1}
                    /\ pipes' = [pipes EXCEPT ![pid] =
                                    [UnusedPipe EXCEPT !.pc = "awaitImage", !.file = f,
                                                       !.url = urlCount + 1]]
                    /\ UNCHANGED <<currentImage, currentMetadata, tbody, notifications>>
    /\ UNCHANGED <<exported, notViewer>>

\* handleFileSelection(file) up to the point where displayFileInfo waits for
\* the image: the two validations, the revocation of the previous URL, and the
\* synchronous part of displayFileInfo
SelectFile(f) ==
    \E pid \in 1..MaxSelections :
        /\ pipes[pid].pc = "unused"
        /\ \A q \in 1..(pid - 1) : pipes[q].pc # "unused"
        /\ LET file == Files[f]
           IN  IF toLowerCase(file.type) \notin ACCEPTED_TYPES
               THEN /\ notifications' = notifications \cup
                          {Notify(pid, "error",
                             "Please select a valid image file (JPG, JPEG, or PNG)")}
                    /\ pipes' = [pipes EXCEPT ![pid] =
                                    [UnusedPipe EXCEPT !.pc = "rejected", !.file = f]]
                    /\ UNCHANGED <<currentFile, currentImage, currentImageUrl,
                                   currentMetadata, fileInfo, tbody, liveUrls, urlCount>>
               ELSE IF file.size > MAX_FILE_SIZE
               THEN /\ notifications' = notifications \cup
                          {Notify(pid, "error", "File is too large. Maximum size is 50MB")}
                    /\ pipes' = [pipes EXCEPT ![pid] =
                                    [UnusedPipe EXCEPT !.pc = "rejected", !.file = f]]
                    /\ UNCHANGED <<currentFile, currentImage, currentImageUrl,
                                   currentMetadata, fileInfo, tbody, liveUrls, urlCount>>
               ELSE /\ currentFile' = f
                    /\ fileInfo' = [fileInfo EXCEPT !.file = f, !.preview = <<>>]
                    /\ urlCount' = urlCount + 1
                    /\ currentImageUrl' = urlCount + 1
                    /\ liveUrls' = (liveUrls \ {currentImageUrl}) \cup {urlCount + 1}
                    /\ pipes' = [pipes EXCEPT ![pid] =
                                    [UnusedPipe EXCEPT !.pc = "awaitImage", !.file = f,
                                                       !.url = urlCount + 1]]
                    /\ UNCHANGED <<currentImage, currentMetadata, tbody, notifications>>
    /\ UNCHANGED <<exported, notViewer>>

\* img.onload, and the call of extractRealMetadata that follows the await
ImageLoaded(pid) ==
    /\ pipes[pid].pc = "awaitImage"
    /\ Files[pipes[pid].file].image = "ok"
    /\ currentImage' = pid
    /\ fileInfo' = [fileInfo EXCEPT !.dimensions = pid, !.sectionShown = TRUE,
                                    !.preview = Append(@, pid)]
    /\ pipes' = [pipes EXCEPT ![pid].pc = "awaitRead"]
    /\ UNCHANGED <<currentFile, currentImageUrl, currentMetadata, tbody,
                   notifications, liveUrls, urlCount>>
    /\ UNCHANGED <<exported, notViewer>>

\* img.onerror, and the call of extractRealMetadata that follows the await
ImageFailed(pid) ==
    /\ pipes[pid].pc = "awaitImage"
    /\ Files[pipes[pid].file].image = "corrupt"
    /\ liveUrls' = liveUrls \ {currentImageUrl}
    /\ notifications' = notifications \cup
           {Notify(pid, "error", "Failed to load image preview")}
    /\ pipes' = [pipes EXCEPT ![pid].pc = "awaitRead"]
    /\ UNCHANGED <<currentFile, currentImage, currentImageUrl, currentMetadata,
                   fileInfo, tbody, urlCount>>
    /\ UNCHANGED <<exported, notViewer>>

\* the continuation of handleFileSelection after the await of
\* extractRealMetadata: currentMetadata is set and the table rendered; when
\* the promise never settles nothing of it runs
settle(pid, r) ==
    IF r.settled
    THEN /\ currentMetadata' = r.metadata
         /\ tbody' = [rendered |-> TRUE, by |-> pid,
                      table |-> displayMetadata(r.metadata)]
         /\ notifications' =
               IF r.warning = "" THEN notifications
               ELSE notifications \cup {Notify(pid, "warning", r.warning)}
         /\ pipes' = [pipes EXCEPT ![pid].pc = "done",
                                   ![pid].metadata = r.metadata]
    ELSE /\ pipes' = [pipes EXCEPT ![pid].pc = "crashed"]
         /\ UNCHANGED <<currentMetadata, tbody, notifications>>

\* reader.onload, and what follows it in handleFileSelection
ReadDone(pid) ==
    /\ pipes[pid].pc = "awaitRead"
    /\ settle(pid, extractRealMetadata(Files[pipes[pid].file]))
    /\ UNCHANGED <<currentFile, currentImage, currentImageUrl, fileInfo,
                   liveUrls, urlCount>>
    /\ UNCHANGED <<exported, notViewer>>

\* the read fails: the reader has no onerror handler, so nothing runs and the
\* promise of extractRealMetadata stays pending
ReadFailed(pid) ==
    /\ pipes[pid].pc = "awaitRead"
    /\ pipes' = [pipes EXCEPT ![pid].pc = "readFailed"]
    /\ UNCHANGED <<currentFile, currentImage, currentImageUrl, currentMetadata,
                   fileInfo, tbody, notifications, liveUrls, urlCount>>
    /\ UNCHANGED <<exported, notViewer>>

\* exportMetadataAsJSON(): the document is built from this.currentFile and
\* this.currentMetadata as they are at the click; notifications of the export
\* carry pipeline number 0
exportMetadataAsJSON ==
    /\ IF currentMetadata.isNull \/ currentFile = 0
       THEN /\ notifications' = notifications \cup
                  {Notify(0, "warning", "No metadata to export")}
            /\ UNCHANGED exported
       ELSE /\ exported' = [made |-> TRUE, file |-> currentFile,
                            basicInfo |-> currentMetadata.basic,
                            exifData |-> currentMetadata.exif]
            /\ notifications' = notifications \cup
                  {Notify(0, "success", "Metadata exported successfully")}
    /\ UNCHANGED <<currentFile, currentImage, currentImageUrl, currentMetadata,
                   fileInfo, tbody, liveUrls, urlCount, pipes>>
    /\ UNCHANGED notViewer

Next ==
    \/ exportMetadataAsJSON
    \/ \E f \in 1..Len(Files) : SelectFile(f)
    \/ \E pid \in 1..MaxSelections : ImageLoaded(pid)
    \/ \E pid \in 1..MaxSelections : ImageFailed(pid)
    \/ \E pid \in 1..MaxSelections : ReadDone(pid)
    \/ \E pid \in 1..MaxSelections : ReadFailed(pid)

Init ==
    InitViewer /\ IdleGPS /\ IdleParse /\ InitRemover /\ IdleNaming /\ IdleSummary

Spec == Init /\ [][Next]_vars

\* a pending preview load or file read ends in one of its outcomes
StageCompletes ==
    \E pid \in 1..MaxSelections :
        ImageLoaded(pid) \/ ImageFailed(pid) \/ ReadFailed(pid) \/ ReadDone(pid)

\* the viewer when no pending stage is put off forever; the user need not
\* select or export anything
SpecLive == Spec /\ WF_vars(StageCompletes)

----------------------------------------------------------------------------
(* SpecRemover: the remover.  Files are selected and the clean button is    *)
(* clicked in any order; the stages of each call complete in any order.     *)
(* A file is a record of its attributes, of whether the browser can decode  *)
(* it as an image, and of the number of fields piexif.load finds in it      *)
(* (exifFields, -1 when piexif.load throws).                                *)

RemoverFiles ==
    << [name |-> "photo.jpg", type |-> "image/jpeg", size |-> 2048,
        image |-> "ok", exifFields |-> 3],
       [name |-> "clean.png", type |-> "image/png", size |-> 1024,
        image |-> "ok", exifFields |-> -1],
       [name |-> "notes.txt", type |-> "text/plain", size |-> 10,
        image |-> "corrupt", exifFields |-> -1],
       [name |-> "huge.jpg", type |-> "image/jpeg", size |-> MAX_FILE_SIZE + 1,
        image |-> "ok", exifFields |-> 1],
       [name |-> "broken.jpg", type |-> "image/jpeg", size |-> 512,
        image |-> "corrupt", exifFields |-> 2],
       [name |-> "empty.jpg", type |-> "image/jpeg", size |-> 256,
        image |-> "ok", exifFields |-> 0] >>

\* what piexif.load can find in a re-encoded file: it throws (-1), or returns
\* directories holding this many fields
VerifyOutcomes == {-1, 0, 1}

RemoverNote(run, type, message) == [run |-> run, type |-> type, message |-> message]

\* handleFileSelection(file) up to the await of analyzeOriginalMetadata
SelectRemoverFile(f) ==
    \E a \in 1..MaxRemoverSelections :
        /\ analyses[a].pc = "unused"
        /\ \A b \in 1..(a - 1) : analyses[b].pc # "unused"
        /\ remover' = [remover EXCEPT !.currentFile = f]
        /\ removerDom' = [removerDom EXCEPT !.fileInfo = f]
        /\ analyses' = [analyses EXCEPT ![a] = [pc |-> "reading", file |-> f]]
        /\ UNCHANGED <<removerNotes, cleanRuns, notRemover>>

\* reader.onload of analyzeOriginalMetadata, and the rest of
\* handleFileSelection
AnalysisRead(a) ==
    /\ analyses[a].pc = "reading"
    /\ remover' =
          IF RemoverFiles[analyses[a].file].exifFields < 0
          THEN [remover EXCEPT !.originalExifData = NoExifData,
                               !.originalMetadataCount = 0]
          ELSE [remover EXCEPT
                   !.originalExifData =
                       [isNull |-> FALSE,
                        fields |-> RemoverFiles[analyses[a].file].exifFields],
                   !.originalMetadataCount =
                       RemoverFiles[analyses[a].file].exifFields]
    /\ removerDom' = [removerDom EXCEPT
                         !.found = IF RemoverFiles[analyses[a].file].exifFields < 0
                                   THEN 0
                                   ELSE RemoverFiles[analyses[a].file].exifFields,
                         !.processingSection = TRUE,
                         !.resultSection = FALSE]
    /\ analyses' = [analyses EXCEPT ![a].pc = "done"]
    /\ UNCHANGED <<removerNotes, cleanRuns, notRemover>>

\* the read of analyzeOriginalMetadata fails: the reader has no onerror
\* handler and the promise stays pending
AnalysisReadFailed(a) ==
    /\ analyses[a].pc = "reading"
    /\ analyses' = [analyses EXCEPT ![a].pc = "readFailed"]
    /\ UNCHANGED <<remover, removerDom, removerNotes, cleanRuns, notRemover>>

\* a run that starts without disabling the button
ClickClean_LeavesButtonEnabled ==
    \E r \in 1..MaxCleanRuns :
        /\ removerDom.button = "enabled"
        /\ cleanRuns[r].pc = "unused"
        /\ \A q \in 1..(r - 1) : cleanRuns[q].pc # "unused"
        /\ IF remover.currentFile = 0
           THEN /\ removerNotes' = removerNotes \cup
                      {RemoverNote(r, "warning", "Please select a file first")}
                /\ cleanRuns' = [cleanRuns EXCEPT ![r].pc = "noFile"]
                /\ UNCHANGED removerDom
           ELSE /\ UNCHANGED removerDom
                /\ cleanRuns' = [cleanRuns EXCEPT ![r].pc = "reading",
                                                  ![r].file = remover.currentFile]
                /\ UNCHANGED removerNotes
        /\ UNCHANGED <<remover, analyses, notRemover>>

\* a click on the clean button (a disabled button takes no click):
\* cleanMetadata up to the await of stripAllMetadata
ClickClean ==
    \E r \in 1..MaxCleanRuns :
        /\ removerDom.button = "enabled"
        /\ cleanRuns[r].pc = "unused"
        /\ \A q \in 1..(r - 1) : cleanRuns[q].pc # "unused"
        /\ IF remover.currentFile = 0
           THEN /\ removerNotes' = removerNotes \cup
                      {RemoverNote(r, "warning", "Please select a file first")}
                /\ cleanRuns' = [cleanRuns EXCEPT ![r].pc = "noFile"]
                /\ UNCHANGED removerDom
           ELSE /\ removerDom' = [removerDom EXCEPT !.button = "disabled"]
                /\ cleanRuns' = [cleanRuns EXCEPT ![r].pc = "reading",
                                                  ![r].file = remover.currentFile]
                /\ UNCHANGED removerNotes
        /\ UNCHANGED <<remover, analyses, notRemover>>

\* a catch block that also forgets the file cleaned before
stripFails_ForgetsCleaned(r, message) ==
    /\ removerNotes' = removerNotes \cup
          {RemoverNote(r, "error", <<"Error removing metadata: ", message>>)}
    /\ removerDom' = [removerDom EXCEPT !.button = "enabled"]
    /\ cleanRuns' = [cleanRuns EXCEPT ![r].pc = "failed"]
    /\ remover' = [remover EXCEPT !.cleanedFile = NoCleanedFile]
    /\ UNCHANGED <<analyses, notRemover>>

\* the promise of stripAllMetadata rejects: the catch and finally blocks of
\* cleanMetadata
stripFails(r, message) ==
    /\ removerNotes' = removerNotes \cup
          {RemoverNote(r, "error", <<"Error removing metadata: ", message>>)}
    /\ removerDom' = [removerDom EXCEPT !.button = "enabled"]
    /\ cleanRuns' = [cleanRuns EXCEPT ![r].pc = "failed"]
    /\ UNCHANGED <<remover, analyses, notRemover>>

\* reader.onerror of stripAllMetadata
StripReadFailed(r) ==
    /\ cleanRuns[r].pc = "reading"
    /\ stripFails(r, "Failed to read file")

\* reader.onload of stripAllMetadata throws before the image is given its
\* source: catch (error) { reject(error) }
StripException(r) ==
    /\ cleanRuns[r].pc = "reading"
    /\ stripFails(r, "the message of the exception")

\* reader.onload of stripAllMetadata: the image is given its source
StripReadDone(r) ==
    /\ cleanRuns[r].pc = "reading"
    /\ cleanRuns' = [cleanRuns EXCEPT ![r].pc = "loading"]
    /\ UNCHANGED <<remover, removerDom, removerNotes, analyses, notRemover>>

\* img.onerror of stripAllMetadata
StripImageFailed(r) ==
    /\ cleanRuns[r].pc = "loading"
    /\ RemoverFiles[cleanRuns[r].file].image = "corrupt"
    /\ stripFails(r, "Failed to load image")

\* img.onload of stripAllMetadata: the canvas is drawn and toBlob is called
StripImageLoaded(r) ==
    /\ cleanRuns[r].pc = "loading"
    /\ RemoverFiles[cleanRuns[r].file].image = "ok"
    /\ cleanRuns' = [cleanRuns EXCEPT ![r].pc = "encoding"]
    /\ UNCHANGED <<remover, removerDom, removerNotes, analyses, notRemover>>

\* the callback of toBlob with a null blob
StripBlobNull(r) ==
    /\ cleanRuns[r].pc = "encoding"
    /\ stripFails(r, "Failed to create cleaned file")

\* the callback of toBlob with a blob: the cleaned file is built, and
\* cleanMetadata stores it and calls verifyCleanedFile
StripBlob(r) ==
    /\ cleanRuns[r].pc = "encoding"
    /\ remover' = [remover EXCEPT
                      !.cleanedFile = [of |-> cleanRuns[r].file, run |-> r]]
    /\ cleanRuns' = [cleanRuns EXCEPT ![r].pc = "verifying"]
    /\ UNCHANGED <<removerDom, removerNotes, analyses, notRemover>>

\* displayResults(remainingMetadataCount), then the rest of cleanMetadata:
\* the success notification and the finally block
displayResults(r, remainingMetadataCount) ==
    /\ removerDom' = [removerDom EXCEPT
                         !.before = remover.originalMetadataCount,
                         !.after = remainingMetadataCount,
                         !.original = remover.currentFile,
                         !.download = remover.cleanedFile,
                         !.resultSection = TRUE,
                         !.liveUrls = @ \cup {remover.cleanedFile.run},
                         !.button = "enabled"]
    /\ removerNotes' = removerNotes \cup
          {RemoverNote(r, "success", "All metadata removed successfully!")}
    /\ cleanRuns' = [cleanRuns EXCEPT ![r].pc = "done",
                                      ![r].remaining = remainingMetadataCount]
    /\ UNCHANGED <<remover, analyses, notRemover>>

\* reader.onload of verifyCleanedFile: the fields of the cleaned file are
\* counted, 0 when piexif.load throws
VerifyRead(r) ==
    /\ cleanRuns[r].pc = "verifying"
    /\ \E found \in VerifyOutcomes :
          displayResults(r, IF found < 0 THEN 0 ELSE found)

\* the read of verifyCleanedFile fails: the reader has no onerror handler, the
\* promise stays pending and the finally block never runs
VerifyReadFailed(r) ==
    /\ cleanRuns[r].pc = "verifying"
    /\ cleanRuns' = [cleanRuns EXCEPT ![r].pc = "hung"]
    /\ UNCHANGED <<remover, removerDom, removerNotes, analyses, notRemover>>

\* a click on the download link while the results are shown: its onclick
\* handler, and the timer it sets, which revokes the URL the link was given by
\* the displayResults call that installed the handler
ClickDownload ==
    /\ removerDom.resultSection
    /\ removerDom.download.run \in removerDom.liveUrls
    /\ removerDom' = [removerDom EXCEPT !.liveUrls = @ \ {removerDom.download.run}]
    /\ UNCHANGED <<remover, removerNotes, analyses, cleanRuns, notRemover>>

NextRemover ==
    \/ ClickDownload
    \/ \E f \in 1..Len(RemoverFiles) : SelectRemoverFile(f)
    \/ \E a \in 1..MaxRemoverSelections : AnalysisRead(a)
    \/ \E a \in 1..MaxRemoverSelections : AnalysisReadFailed(a)
    \/ ClickClean
    \/ \E r \in 1..MaxCleanRuns : StripReadFailed(r)
    \/ \E r \in 1..MaxCleanRuns : StripException(r)
    \/ \E r \in 1..MaxCleanRuns : StripReadDone(r)
    \/ \E r \in 1..MaxCleanRuns : StripImageFailed(r)
    \/ \E r \in 1..MaxCleanRuns : StripImageLoaded(r)
    \/ \E r \in 1..MaxCleanRuns : StripBlobNull(r)
    \/ \E r \in 1..MaxCleanRuns : StripBlob(r)
    \/ \E r \in 1..MaxCleanRuns : VerifyRead(r)
    \/ \E r \in 1..MaxCleanRuns : VerifyReadFailed(r)

InitSpecRemover ==
    /\ InitRemover /\ InitViewer /\ IdleGPS /\ IdleParse /\ IdleNaming
    /\ IdleSummary

SpecRemover == InitSpecRemover /\ [][NextRemover]_vars

\* the remover when no handler that can run is put off forever: a pending read,
\* image load or encoding ends in one of its outcomes
SpecRemoverLive == SpecRemover /\ WF_vars(NextRemover)

----------------------------------------------------------------------------
(* SpecNaming: the name stripAllMetadata gives the cleaned file, for every  *)
(* file name of NameChars up to MaxNameLen characters.  A name is the       *)
(* sequence of its characters.                                              *)

NameChars == {".", "a", "J"}

\* String.prototype.lastIndexOf(c): the 0-based index of the last c, or -1
lastIndexOf(str, c) ==
    IF \E i \in 1..Len(str) : str[i] = c
    THEN (CHOOSE i \in 1..Len(str) :
              str[i] = c /\ \A k \in (i + 1)..Len(str) : str[k] # c) - 1
    ELSE -1

\* file.name.replace(/\.[^/.]+$/, ''): a last dot followed to the end of the
\* name by one or more characters other than '/' and '.' is cut off with them
removeExtension(name) ==
    IF /\ lastIndexOf(name, ".") >= 0
       /\ lastIndexOf(name, ".") + 1 < Len(name)
       /\ \A k \in (lastIndexOf(name, ".") + 2)..Len(name) : name[k] # "/"
    THEN SubSeq(name, 1, lastIndexOf(name, "."))
    ELSE name

\* (x >>> 0) + 2 for x < 0 is 2^32 + x + 2, an index past the end of every
\* string; it is kept as the largest index the model can hold
PastEveryString == 2147483647

\* (i - 1 >>> 0) + 2
sliceStart(i) == IF i - 1 >= 0 THEN i + 1 ELSE PastEveryString

\* String.prototype.slice(start), start >= 0
slice(str, start) ==
    IF start >= Len(str) THEN <<>> ELSE SubSeq(str, start + 1, Len(str))

\* String.prototype.toLowerCase, character by character
lowerCaseOf(str) == [i \in 1..Len(str) |-> IF str[i] = "J" THEN "j" ELSE str[i]]

\* MetadataTool.getFileExtension
getFileExtension(filename) ==
    lowerCaseOf(slice(filename, sliceStart(lastIndexOf(filename, "."))))

\* `${originalName}_cleaned.${extension}`
cleanedFileName(name) ==
    removeExtension(name) \o <<"_cleaned.">> \o getFileExtension(name)

RECURSIVE NamesOfLength(_)
NamesOfLength(n) ==
    IF n = 0 THEN {<<>>}
    ELSE {Append(str, c) : str \in NamesOfLength(n - 1), c \in NameChars}

FileNames == UNION {NamesOfLength(n) : n \in 1..MaxNameLen}

InitNaming ==
    /\ fileName \in FileNames
    /\ cleanedName = <<>>
    /\ IdleGPS /\ IdleParse /\ InitViewer /\ InitRemover /\ IdleSummary

\* the toBlob callback of stripAllMetadata building the cleaned file
BuildCleanedFile ==
    /\ cleanedName = <<>>
    /\ cleanedName' = cleanedFileName(fileName)
    /\ UNCHANGED <<fileName, notNaming>>

NextNaming == BuildCleanedFile

SpecNaming == InitNaming /\ [][NextNaming]_vars

----------------------------------------------------------------------------
(* SpecSummary: the size comparison of displayResults, for every size of   *)
(* this.currentFile and of this.cleanedFile up to MaxSize bytes.  A cleaned *)
(* file holds at least one byte of encoded image.                           *)

\* a * 100 on numbers
TimesHundred(a) == IF a.v.k = "fin" THEN Fin(a.v.n * 100, a.v.d) ELSE a

\* Math.abs(text) for the text toFixed(2) returned: the numeral is converted
\* back to a number and its sign dropped
AbsOfFixed(text) ==
    CASE text.k = "NaN" -> NaN
      [] text.k = "Infinity" -> Infinity
      [] OTHER -> Fin(text.int * 100 + text.frac, 100)

\* the p that displayResults interpolates into 'File size reduced by p%'
percentReduced(originalSize, cleanedSize) ==
    LET sizeDiff == originalSize - cleanedSize
        percentChange ==
            ToFixed(TimesHundred(NumDiv(Num(sizeDiff), Num(originalSize))), 2)
    IN  AbsOfFixed(percentChange)

InitSummary ==
    /\ sizes \in [original : 0..MaxSize, cleaned : 1..MaxSize]
    /\ percentShown = NotCalled
    /\ IdleGPS /\ IdleParse /\ InitViewer /\ InitRemover /\ IdleNaming

ShowSummary ==
    /\ percentShown = NotCalled
    /\ percentShown' = percentReduced(sizes.original, sizes.cleaned)
    /\ UNCHANGED <<sizes, notSummary>>

NextSummary == ShowSummary

SpecSummary == InitSummary /\ [][NextSummary]_vars

----------------------------------------------------------------------------
(* Claims about the GPS functions, checked under SpecGPS.                  *)

IsTriple(c) == IsArray(c) /\ Len(c.v.a) = 3

\* a rational pair [n, 0] of numbers
IsZeroDenominatorPair(x) ==
    /\ IsArray(x) /\ Len(x.v.a) = 2
    /\ IsFiniteNum(x.v.a[1])
    /\ IsFiniteNum(x.v.a[2]) /\ x.v.a[2].v.n = 0

\* component i of the triple c as the functions read it, before sanitizing
Converted(c, i) ==
    IF IsNumber(c.v.a[1]) THEN c.v.a[i] ELSE convertRational(c.v.a[i])

\* component i is NaN or infinite after conversion
IsBad(c, i) == ToNumber(Converted(c, i)).v.k # "fin"

\* component i as it has to be shown
Shown(c, i) == IF IsBad(c, i) THEN Num(0) ELSE Converted(c, i)

\* C1: formatGPSCoordinate never throws, whatever its argument, and for a
\* 3-element argument it returns the text.
C1_FormatNeverThrows ==
    fmtOut # NotCalled =>
        /\ fmtOut.t # "throw"
        /\ IsTriple(coord) => fmtOut.t = "text"

\* C2: for a 3-element coordinate convertGPSToDecimal returns a finite number,
\* never NaN or an infinity.
C2_DecimalAlwaysFinite ==
    (decOut # NotCalled /\ IsTriple(coord)) => IsFiniteNum(decOut)

\* the triple c with component i replaced by a zero of the same form
WithZeroAt(c, i) ==
    Arr([j \in 1..3 |->
            IF j # i THEN c.v.a[j]
            ELSE IF IsNumber(c.v.a[1]) THEN Num(0) ELSE Arr(<<Num(0), Num(1)>>)])

\* C3: a rational pair with denominator 0 converts to 0, and a triple that
\* holds such a pair is formatted and converted with that component equal to
\* 0: the text shows 0 for it, and the decimal is the one of the triple with a
\* zero in its place; no exception.
C3_ZeroDenominatorIsZero ==
    IsTriple(coord) =>
        \A i \in 1..3 :
            IsZeroDenominatorPair(coord.v.a[i]) =>
                /\ convertRational(coord.v.a[i]) = Num(0)
                /\ fmtOut # NotCalled =>
                      /\ fmtOut.t = "text"
                      /\ i = 1 => fmtOut.v.degrees = Num(0)
                      /\ i = 2 => fmtOut.v.minutes = Num(0)
                      /\ i = 3 => fmtOut.v.seconds = ToFixed(Num(0), 2)
                /\ decOut # NotCalled =>
                      decOut = convertGPSToDecimal(WithZeroAt(coord, i), ref)

IsWellFormed(c) ==
    \/ \A i \in 1..3 : IsFiniteNum(c.v.a[i])
    \/ \A i \in 1..3 : /\ IsArray(c.v.a[i]) /\ Len(c.v.a[i].v.a) = 2
                       /\ IsFiniteNum(c.v.a[i].v.a[1]) /\ c.v.a[i].v.a[1].v.d = 1
                       /\ IsFiniteNum(c.v.a[i].v.a[2]) /\ c.v.a[i].v.a[2].v.d = 1

NumerOf(x) ==
    IF IsNumber(x) THEN x.v.n
    ELSE IF x.v.a[2].v.n = 0 THEN 0 ELSE x.v.a[1].v.n

DenomOf(x) ==
    IF IsNumber(x) THEN x.v.d
    ELSE IF x.v.a[2].v.n = 0 THEN 1 ELSE x.v.a[2].v.n

\* v = degrees + minutes/60 + seconds/3600 over one denominator
UnsignedDecimal(c) ==
    LET n1 == NumerOf(c.v.a[1])  d1 == DenomOf(c.v.a[1])
        n2 == NumerOf(c.v.a[2])  d2 == DenomOf(c.v.a[2])
        n3 == NumerOf(c.v.a[3])  d3 == DenomOf(c.v.a[3])
    IN  Fin(3600 * n1 * d2 * d3 + 60 * n2 * d1 * d3 + n3 * d1 * d2,
            3600 * d1 * d2 * d3)

IsSouthOrWest(r) == r.t = "string" /\ r.v.s \in {"S", "W"}

\* C5: convertGPSToDecimal(c, ref) is -v for ref "S" or "W" and v for "N", "E"
\* and any other or missing ref, v being degrees + minutes/60 + seconds/3600.
C5_HemisphereSign ==
    (decOut # NotCalled /\ IsTriple(coord)) =>
        /\ IsWellFormed(coord) =>
              decOut = IF IsSouthOrWest(ref)
                       THEN NumNeg(UnsignedDecimal(coord))
                       ELSE UnsignedDecimal(coord)
        /\ decOut = IF IsSouthOrWest(ref)
                    THEN NumNeg(convertGPSToDecimal(coord, Str("N")))
                    ELSE convertGPSToDecimal(coord, Str("N"))

\* a western coordinate of 1 deg 1' 1/2" came out negative
C5_Witness ==
    /\ coord = Arr(<<Arr(<<Num(1), Num(1)>>), Arr(<<Num(1), Num(1)>>),
                     Arr(<<Num(1), Num(2)>>)>>)
    /\ ref = Str("W")
    /\ decOut = Fin(-7321, 7200)

\* a triple of pairs of integers with denominators other than 0
IsRationalTriple(c) ==
    /\ IsTriple(c)
    /\ \A i \in 1..3 : /\ IsArray(c.v.a[i]) /\ Len(c.v.a[i].v.a) = 2
                       /\ IsFiniteNum(c.v.a[i].v.a[1]) /\ c.v.a[i].v.a[1].v.d = 1
                       /\ IsFiniteNum(c.v.a[i].v.a[2]) /\ c.v.a[i].v.a[2].v.d = 1
                       /\ c.v.a[i].v.a[2].v.n # 0

Quotient(x) == Fin(x.v.a[1].v.n, x.v.a[2].v.n)

\* the text D M' S.SS" (X.XXXXXX) of a rational triple
FormatOfTriple(c) ==
    J("text", [degrees |-> Quotient(c.v.a[1]),
               minutes |-> Quotient(c.v.a[2]),
               seconds |-> ToFixed(Quotient(c.v.a[3]), 2),
               decimal |-> ToFixed(UnsignedDecimal(c), 6)])

C24_FormatterAgreesWithConverter ==
    (/\ fmtOut # NotCalled /\ decOut # NotCalled
     /\ IsTriple(coord) /\ ref \in {Str("N"), Str("E")}) =>
        /\ fmtOut.t = "text"
        /\ decOut.t = "number"
        /\ fmtOut.v.decimal = ToFixed(decOut, 6)

\* the two agree on every well-formed coordinate
C24_AgreeWhenWellFormed ==
    (/\ fmtOut # NotCalled /\ decOut # NotCalled
     /\ IsTriple(coord) /\ IsWellFormed(coord)
     /\ ref \in {Str("N"), Str("E")}) =>
        /\ fmtOut.t = "text"
        /\ decOut.t = "number"
        /\ fmtOut.v.decimal = ToFixed(decOut, 6)

\* a row showing 0 degrees beside a link to NaN: the pair ["abc", 1] is
\* sanitized by the formatter alone
C24_RowAndLinkDiffer ==
    /\ fmtOut # NotCalled /\ decOut # NotCalled
    /\ IsTriple(coord) /\ ref = Str("N")
    /\ fmtOut.t = "text" /\ fmtOut.v.decimal.k = "fixed"
    /\ IsNaNNum(decOut)

----------------------------------------------------------------------------
(* Claims about parseExifData and displayMetadata, checked under SpecParse. *)

\* the (directory, tag) pairs parseExifData visits
TagsOf(obj) ==
    UNION {{<<ifd, tag>> : tag \in DOMAIN obj[ifd]} :
              ifd \in DOMAIN obj \cap {"0th", "Exif", "GPS"}}

\* the empty string, null, undefined or an empty sequence
IsEmptyValue(v) ==
    \/ v.t \in {"null", "undefined"}
    \/ v.t = "string" /\ v.v.s = ""
    \/ v.t = "array" /\ v.v.a = <<>>

HasField(label) == label \in DOMAIN parsed.fields

\* C6: parseExifData drops no tag: every tag with a value that is not empty has
\* its entry, under the table's name or under "<directory> Tag <id>", a string
\* value is shown as it is, and no two tags share a label.
C6_NoTagDropped ==
    parsed.called =>
        /\ \A p \in TagsOf(exifObj) :
              LET value == exifObj[p[1]][p[2]]
              IN  ~IsEmptyValue(value) =>
                     /\ HasField(tagName(p[1], p[2]))
                     /\ value.t = "string" =>
                           parsed.fields[tagName(p[1], p[2])] = value
        /\ \A p, q \in TagsOf(exifObj) :
              p # q => tagName(p[1], p[2]) # tagName(q[1], q[2])
        /\ ("Exif" \in DOMAIN exifObj /\ 99999 \in DOMAIN exifObj["Exif"]) =>
              HasField(<<"Exif", "Tag", "99999">>)

\* C7: a tag whose value is the empty string, null, undefined or an empty
\* sequence never appears in the EXIF section, and every other tag does.
C7_EmptyValuesExcluded ==
    parsed.called =>
        \A p \in TagsOf(exifObj) :
            HasField(tagName(p[1], p[2])) <=> ~IsEmptyValue(exifObj[p[1]][p[2]])

HasGPSTag(tag) == "GPS" \in DOMAIN exifObj /\ tag \in DOMAIN exifObj["GPS"]

\* the location field is there, as a link, beside both coordinate rows
LocationBesideRows ==
    /\ HasField(LocationLabel)
    /\ parsed.fields[LocationLabel].t = "html"
    /\ HasField(<<"GPS", "Latitude">>)
    /\ parsed.fields[<<"GPS", "Latitude">>] = formatGPSCoordinate(exifObj["GPS"][2])
    /\ HasField(<<"GPS", "Longitude">>)
    /\ parsed.fields[<<"GPS", "Longitude">>] = formatGPSCoordinate(exifObj["GPS"][4])

\* C8 as stated: with both tags 2 and 4 in the GPS directory, whatever their
\* values, the output holds the location field beside the two coordinate rows;
\* with either tag absent it holds no location field.
C8_LocationWheneverBothTags ==
    parsed.called =>
        IF HasGPSTag(2) /\ HasGPSTag(4)
        THEN LocationBesideRows
        ELSE ~HasField(LocationLabel)

\* a 3-element coordinate: each component a plain number or a rational pair
IsCoordinate(c) ==
    /\ IsTriple(c)
    /\ \A i \in 1..3 : IsNumber(c.v.a[i]) \/ (IsArray(c.v.a[i]) /\ Len(c.v.a[i].v.a) = 2)

\* C8, amended: with both tags present and both values 3-element coordinates
\* the output holds the location field beside the two coordinate rows, which
\* keep their formatted values; with either tag absent, or holding a value that
\* is not a 3-element sequence, it holds no location field.
C8_LocationForTriples ==
    parsed.called =>
        /\ (/\ HasGPSTag(2) /\ HasGPSTag(4)
            /\ IsCoordinate(exifObj["GPS"][2])
            /\ IsCoordinate(exifObj["GPS"][4])) =>
              /\ ~parsed.threw
              /\ parsed.fields[<<"GPS", "Latitude">>].t = "text"
              /\ parsed.fields[<<"GPS", "Longitude">>].t = "text"
              /\ LocationBesideRows
        /\ (\/ ~HasGPSTag(2) \/ ~HasGPSTag(4)
            \/ ~IsTriple(exifObj["GPS"][2])
            \/ ~IsTriple(exifObj["GPS"][4])) =>
              ~HasField(LocationLabel)

\* two coordinates without hemisphere references were linked
C8_Witness ==
    /\ parsed.called
    /\ HasGPSTag(2) /\ HasGPSTag(4) /\ ~HasGPSTag(1) /\ ~HasGPSTag(3)
    /\ exifObj["GPS"][2] = RationalTriple
    /\ HasField(LocationLabel)
    /\ parsed.fields[<<"GPS", "Latitude">>].t = "text"

HasGPSField == \E key \in DOMAIN parsed.fields : key[1] = "GPS"

\* C9 as stated: the 'Location data not found' notice is shown exactly for the
\* metadata sets whose EXIF section has no field with a label beginning "GPS".
C9_NoticeIffNoGPSField ==
    shown.called => (shown.table.locationNotice <=> ~HasGPSField)

\* C9, amended: the notice is shown exactly for the metadata sets whose EXIF
\* section is not empty and has no field with a label beginning "GPS"; for an
\* empty EXIF section the 'No EXIF metadata found' row is shown in its place.
C9_NoticeIffExifWithoutGPS ==
    shown.called =>
        /\ shown.table.locationNotice <=>
              (DOMAIN parsed.fields # {} /\ ~HasGPSField)
        /\ shown.table.noExifRow <=> DOMAIN parsed.fields = {}

\* the notice was shown under an EXIF section that has rows
C9_Witness ==
    /\ shown.called
    /\ shown.table.locationNotice
    /\ DOMAIN shown.table.exif # {}

\* the notice was withheld for a fallback label 'GPS Tag 99999' alone
C9_FallbackWitness ==
    /\ shown.called
    /\ ~shown.table.locationNotice
    /\ HasField(<<"GPS", "Tag", "99999">>)
    /\ ~HasGPSTag(1) /\ ~HasGPSTag(2) /\ ~HasGPSTag(3) /\ ~HasGPSTag(4)

\* the origin, as plain numbers and as rational pairs
ZeroTriples == {Arr(<<Num(0), Num(0), Num(0)>>), ZeroRationalTriple}

\* C18: the origin is not special-cased.  A latitude (a longitude) that is a
\* zero triple, beside a longitude (a latitude) that is a 3-element
\* coordinate, still gives the location field, with the decimal 0 in it; for
\* latitude [0,0,0] "N" and longitude [0,0,0] "E" the pair is (0, 0).
C18_OriginIsPresent ==
    (parsed.called /\ HasGPSTag(2) /\ HasGPSTag(4)) =>
        /\ (/\ exifObj["GPS"][2] \in ZeroTriples
            /\ IsCoordinate(exifObj["GPS"][4])) =>
              /\ ~parsed.threw
              /\ HasField(LocationLabel)
              /\ parsed.fields[LocationLabel].t = "html"
              /\ parsed.fields[LocationLabel].v.lat = Num(0)
              /\ parsed.fields[LocationLabel].v.latText =
                    [k |-> "fixed", neg |-> FALSE, int |-> 0, frac |-> 0]
        /\ (/\ exifObj["GPS"][4] \in ZeroTriples
            /\ IsCoordinate(exifObj["GPS"][2])) =>
              /\ ~parsed.threw
              /\ HasField(LocationLabel)
              /\ parsed.fields[LocationLabel].t = "html"
              /\ parsed.fields[LocationLabel].v.lon = Num(0)

\* latitude [[0,1],[0,1],[0,1]] "N" and longitude [0,0,0] "E" were linked as
\* (0, 0)
C18_Witness ==
    /\ parsed.called
    /\ HasGPSTag(1) /\ HasGPSTag(2) /\ HasGPSTag(3) /\ HasGPSTag(4)
    /\ exifObj["GPS"][1] = Str("N") /\ exifObj["GPS"][3] = Str("E")
    /\ exifObj["GPS"][2] = ZeroRationalTriple
    /\ exifObj["GPS"][4] = Arr(<<Num(0), Num(0), Num(0)>>)
    /\ HasField(LocationLabel)
    /\ parsed.fields[LocationLabel].v.lat = Num(0)
    /\ parsed.fields[LocationLabel].v.lon = Num(0)

\* C29: no text taken from the EXIF tags or from the file name is interpreted
\* as markup: the only field whose value contributes elements to the table is
\* the location field.
C29_OnlyLocationIsMarkup ==
    shown.called =>
        /\ \A key \in DOMAIN shown.table.exif :
              cellElements(shown.table.exif[key]) > 0 => key = LocationLabel
        /\ \A key \in DOMAIN shown.table.basic :
              cellElements(shown.table.basic[key]) = 0

\* a camera make holding an <img> tag was rendered as an element
C29_TagValueRendered ==
    /\ shown.called
    /\ <<"Camera", "Make">> \in DOMAIN shown.table.exif
    /\ cellElements(shown.table.exif[<<"Camera", "Make">>]) = 1

\* a file name holding a <b> tag was rendered as an element
C29_FileNameRendered ==
    /\ shown.called
    /\ cellElements(shown.table.basic[<<"File", "Name">>]) = 1

----------------------------------------------------------------------------
(* Claims about the viewer's pipeline, checked under Spec.                  *)

DecodeFails(f) == Files[f].decoded.kind = "throw"

DecodesEmpty(f) ==
    /\ Files[f].decoded.kind = "exif"
    /\ \A ifd \in DOMAIN Files[f].decoded.exif :
           DOMAIN Files[f].decoded.exif[ifd] = {}

BasicLabels ==
    {<<"File", "Name">>, <<"File", "Size">>, <<"MIME", "Type">>,
     <<"Last", "Modified">>}

\* the file was read and piexif.load has run on it
WasDecoded(pid) == pipes[pid].pc \in {"done", "crashed"}

\* C10: a pipeline whose decoder threw and a pipeline whose decoder returned
\* three empty directories end the same way: the table is rendered from an
\* EXIF section of 0 fields and a basic section of exactly the 4 basic fields,
\* with the 'No EXIF metadata found' row, and the only notification of type
\* 'error' the pipeline can have shown is the preview's, never the decoder's.
C10_DecodeFailureLikeEmpty ==
    \A pid \in 1..MaxSelections :
        (WasDecoded(pid) /\ (DecodeFails(pipes[pid].file) \/ DecodesEmpty(pipes[pid].file)))
        => /\ pipes[pid].pc = "done"
           /\ DOMAIN pipes[pid].metadata.exif = {}
           /\ DOMAIN pipes[pid].metadata.basic = BasicLabels
           /\ tbody.rendered
           /\ tbody.by = pid =>
                 /\ tbody.table.noExifRow
                 /\ DOMAIN tbody.table.exif = {}
                 /\ DOMAIN tbody.table.basic = BasicLabels
           /\ \A n \in notifications :
                 (n.pid = pid /\ n.type = "error")
                 => n.message = "Failed to load image preview"

\* the same, for the decoders that throw an Error carrying a message
C10_ErrorWithMessageLikeEmpty ==
    \A pid \in 1..MaxSelections :
        (/\ WasDecoded(pid)
         /\ \/ DecodesEmpty(pipes[pid].file)
            \/ /\ DecodeFails(pipes[pid].file)
               /\ Files[pipes[pid].file].decoded.thrown.t = "error")
        => /\ pipes[pid].pc = "done"
           /\ DOMAIN pipes[pid].metadata.exif = {}
           /\ DOMAIN pipes[pid].metadata.basic = BasicLabels
           /\ tbody.rendered
           /\ tbody.by = pid =>
                 /\ tbody.table.noExifRow
                 /\ DOMAIN tbody.table.exif = {}
                 /\ DOMAIN tbody.table.basic = BasicLabels
           /\ \A n \in notifications :
                 (n.pid = pid /\ n.type = "error")
                 => n.message = "Failed to load image preview"

\* a decoder failure ended in the rendered table
C10_FailureRendered ==
    \E pid \in 1..MaxSelections :
        /\ pipes[pid].pc = "done"
        /\ DecodeFails(pipes[pid].file)
        /\ tbody.by = pid /\ tbody.table.noExifRow

\* the decoder threw a value without a message and nothing was rendered
C10_FailureLost ==
    \E pid \in 1..MaxSelections :
        /\ pipes[pid].pc = "crashed"
        /\ DecodeFails(pipes[pid].file)
        /\ ~tbody.rendered

\* what C12 says is rejected
MustBeRejected(f) ==
    \/ toLowerCase(Files[f].type) \notin {"image/jpeg", "image/jpg", "image/png"}
    \/ Files[f].size > 52428800

\* C12: a selection is rejected exactly when the file's lower-cased MIME type
\* is not image/jpeg, image/jpg or image/png or its size is over 50*1024*1024
\* bytes; a rejection shows a notification, leaves currentFile,
\* currentMetadata, currentImageUrl, the table and the object URLs as they
\* were, and no later stage ever runs for it.
C12_RejectionExactAndInert ==
    [][\A pid \in 1..MaxSelections :
          /\ (pipes[pid].pc = "unused" /\ pipes'[pid].pc # "unused")
             => /\ (pipes'[pid].pc = "rejected") <=> MustBeRejected(pipes'[pid].file)
                /\ (pipes'[pid].pc = "rejected")
                   => /\ \E n \in notifications' \ notifications : n.pid = pid
                      /\ UNCHANGED <<currentFile, currentMetadata, currentImageUrl,
                                     currentImage, tbody, liveUrls, urlCount, fileInfo>>
          /\ (pipes[pid].pc = "rejected") => (pipes'[pid] = pipes[pid])]_vars

\* a file of exactly 50*1024*1024 bytes was accepted and then a file was
\* rejected, the object URL of the first still live
C12_Witness ==
    /\ pipes[1].pc \notin {"unused", "rejected"}
    /\ Files[pipes[1].file].size = 52428800
    /\ pipes[2].pc = "rejected"
    /\ currentFile = pipes[1].file
    /\ currentImageUrl \in liveUrls

\* the preview of the pipeline's file failed to load
PreviewFailed(pid) ==
    \E n \in notifications :
        n.pid = pid /\ n.type = "error" /\ n.message = "Failed to load image preview"

\* C14 (viewer): when the selected file cannot be decoded as an image, an
\* error is shown and no later stage of that file's pipeline runs: its
\* metadata is not extracted and no table is rendered for it.
C14_CorruptImageAborts ==
    \A pid \in 1..MaxSelections :
        (pipes[pid].pc \notin {"unused", "rejected"}
         /\ Files[pipes[pid].file].image = "corrupt")
        => /\ pipes[pid].pc \in {"awaitImage", "aborted"}
           /\ pipes[pid].pc = "aborted" => PreviewFailed(pid)
           /\ tbody.by # pid

\* the table was rendered for a file whose preview had failed to load
C14_TableAfterFailedPreview ==
    \E pid \in 1..MaxSelections :
        PreviewFailed(pid) /\ pipes[pid].pc = "done" /\ tbody.by = pid

\* C19: every exported document describes one file: its basicInfo is the
\* basic section of the file named in its fileName and fileSize, and its
\* exifData is what a finished pipeline of that file extracted.
C19_ExportDescribesOneFile ==
    exported.made =>
        /\ exported.basicInfo = getBasicMetadata(Files[exported.file])
        /\ \E pid \in 1..MaxSelections :
              /\ pipes[pid].pc = "done"
              /\ pipes[pid].file = exported.file
              /\ pipes[pid].metadata.exif = exported.exifData

\* a document whose two halves describe the same file was exported
C19_ConsistentExport ==
    /\ exported.made
    /\ exported.basicInfo = getBasicMetadata(Files[exported.file])

\* A and then another file B were selected, and both pipelines ran to their
\* end
BothFinished ==
    /\ \A pid \in 1..2 : pipes[pid].pc = "done"
    /\ pipes[1].file # pipes[2].file

\* C20: once the pipelines of A and of B, selected after A, have both
\* finished, currentFile, currentMetadata, the file info (with the dimensions
\* of the preview) and the table all describe B.
C20_LastSelectionWins ==
    BothFinished =>
        /\ currentFile = pipes[2].file
        /\ currentMetadata = pipes[2].metadata
        /\ fileInfo.file = pipes[2].file
        /\ fileInfo.dimensions = 2
        /\ tbody.by = 2

\* both pipelines finished and everything describes B
C20_InOrderCompletion ==
    /\ BothFinished
    /\ currentMetadata = pipes[2].metadata
    /\ fileInfo.dimensions = 2
    /\ tbody.by = 2

\* C22: at most one object URL created for a preview is unrevoked, and
\* this.currentImageUrl is the URL created last (0 before the first one).
C22_OnePreviewUrl ==
    /\ Cardinality(liveUrls) <= 1
    /\ liveUrls \subseteq {currentImageUrl}
    /\ currentImageUrl = urlCount

\* a second file was accepted while the first was still loading its preview,
\* and only the second URL is left
C22_Witness ==
    /\ urlCount >= 2
    /\ pipes[1].pc = "awaitImage" /\ pipes[2].pc # "rejected"
    /\ liveUrls = {urlCount}

\* a preview failed to load and no URL is left
C22_FailedPreviewWitness ==
    /\ \E pid \in 1..MaxSelections :
          /\ pipes[pid].pc = "awaitRead"
          /\ Files[pipes[pid].file].image = "corrupt"
    /\ urlCount >= 1
    /\ liveUrls = {}

\* the pipeline ended: its table is rendered, or it showed the error of
\* handleFileSelection's catch block
PipelineEnded(pid) ==
    \/ pipes[pid].pc = "done" /\ tbody.rendered
    \/ Notify(pid, "error", "Error extracting metadata from file") \in notifications

\* C26: every pipeline started for an accepted file eventually ends.
C26_PipelineEnds ==
    \A pid \in 1..MaxSelections :
        (pipes[pid].pc = "awaitImage") ~> PipelineEnded(pid)

\* a pipeline whose file read failed, or whose decoder threw a value without
\* a message, and which showed nothing about it
C26_PipelinePending ==
    \E pid \in 1..MaxSelections :
        /\ pipes[pid].pc \in {"readFailed", "crashed"}
        /\ \A n \in notifications : n.pid = pid => n.type # "error"

----------------------------------------------------------------------------
(* Claims about the remover, checked under SpecRemover.                     *)

SuccessShown(r) ==
    \E n \in removerNotes : n.run = r /\ n.type = "success"

\* C11: the success notification of a cleanMetadata call is shown only when
\* its verification counted zero remaining metadata fields in the cleaned
\* file.
C11_SuccessOnlyWhenClean ==
    \A r \in 1..MaxCleanRuns :
        SuccessShown(r) => (cleanRuns[r].pc = "done" /\ cleanRuns[r].remaining = 0)

\* the success notification after a verification that found nothing
C11_CleanSuccess ==
    \E r \in 1..MaxCleanRuns :
        SuccessShown(r) /\ cleanRuns[r].remaining = 0 /\ removerDom.after = 0

\* a file the remover is to reject: a MIME type outside the accepted ones,
\* or a size over the maximum
IsInvalid(f) ==
    \/ toLowerCase(RemoverFiles[f].type) \notin {"image/jpeg", "image/jpg", "image/png"}
    \/ RemoverFiles[f].size > 52428800

\* C13: a file of a type that is not accepted, or larger than the maximum, is
\* rejected before any processing: it never becomes currentFile, it is never
\* read or decoded, and no cleanMetadata call ever works on it.
C13_InvalidFileNeverProcessed ==
    /\ \A a \in 1..MaxRemoverSelections :
          (analyses[a].file # 0 /\ IsInvalid(analyses[a].file))
          => analyses[a].pc = "rejected"
    /\ remover.currentFile # 0 => ~IsInvalid(remover.currentFile)
    /\ \A r \in 1..MaxCleanRuns :
          cleanRuns[r].file # 0 => ~IsInvalid(cleanRuns[r].file)

\* an oversized file was re-encoded into a cleaned file
C13_InvalidFileCleaned ==
    /\ remover.cleanedFile.of # 0
    /\ IsInvalid(remover.cleanedFile.of)

\* C14 (remover): when the image of a cleanMetadata call fails to load, the
\* call shows the error and ends without verification and without results.
C14_RemoverAborts ==
    \A r \in 1..MaxCleanRuns :
        (cleanRuns[r].file # 0 /\ RemoverFiles[cleanRuns[r].file].image = "corrupt")
        => /\ cleanRuns[r].pc \in {"reading", "loading", "failed"}
           /\ ~SuccessShown(r)
           /\ remover.cleanedFile.run # r

\* the message of the failure that can end a cleanMetadata call at a stage
FailureMessages(pc) ==
    CASE pc = "reading" -> {"Failed to read file", "the message of the exception"}
      [] pc = "loading" -> {"Failed to load image"}
      [] pc = "encoding" -> {"Failed to create cleaned file"}
      [] OTHER -> {}

\* C15: when stripping fails in a cleanMetadata call, an error notification
\* carrying the failure message is shown; currentFile, cleanedFile,
\* originalExifData and originalMetadataCount are left as they were and the
\* results panel is not touched; a failed call has run no verification, shows
\* no success notification and does nothing afterwards.
C15_FailureLeavesStateAlone ==
    [][\A r \in 1..MaxCleanRuns :
          /\ (cleanRuns[r].pc # "failed" /\ cleanRuns'[r].pc = "failed")
             => /\ \E n \in removerNotes' \ removerNotes :
                      /\ n.run = r /\ n.type = "error"
                      /\ n.message[1] = "Error removing metadata: "
                      /\ n.message[2] \in FailureMessages(cleanRuns[r].pc)
                /\ remover' = remover
                /\ removerDom' = [removerDom EXCEPT !.button = "enabled"]
                /\ cleanRuns'[r].remaining = -1
                /\ \A n \in removerNotes' : n.run = r => n.type = "error"
          /\ (cleanRuns[r].pc = "failed")
             => /\ cleanRuns'[r] = cleanRuns[r]
                /\ \A n \in removerNotes' \ removerNotes : n.run # r]_vars

\* a cleanMetadata call failed after an earlier call had produced a cleaned
\* file, which is still stored
C15_Witness ==
    \E r \in 1..MaxCleanRuns :
        /\ cleanRuns[r].pc = "failed"
        /\ remover.cleanedFile.of # 0
        /\ remover.cleanedFile.run # r
        /\ \E n \in removerNotes : n.run = r /\ n.type = "error"

\* the number displayResults would show as 'before' for file f: what
\* analyzeOriginalMetadata counts in it
FieldsCounted(f) ==
    IF RemoverFiles[f].exifFields < 0 THEN 0 ELSE RemoverFiles[f].exifFields

\* C21: every results summary is about one file: the original named in it,
\* the 'before' count and the cleaned file offered for download all come from
\* the same selected file.
C21_SummaryAboutOneFile ==
    \A r \in 1..MaxCleanRuns :
        (cleanRuns[r].pc = "done" /\ removerDom.download.run = r) =>
            /\ removerDom.original = removerDom.download.of
            /\ removerDom.before = FieldsCounted(removerDom.download.of)

\* a summary whose parts all come from the file that was cleaned
C21_ConsistentSummary ==
    \E r \in 1..MaxCleanRuns :
        /\ cleanRuns[r].pc = "done" /\ removerDom.download.run = r
        /\ removerDom.original = removerDom.download.of
        /\ removerDom.before = FieldsCounted(removerDom.download.of)

\* the file was analysed before the clean button was clicked, another file
\* was selected during the run, and the summary names the new file beside the
\* cleaned copy of the old one
C21_MixedSummary ==
    \E r \in 1..MaxCleanRuns :
        /\ cleanRuns[r].pc = "done" /\ removerDom.download.run = r
        /\ analyses[1].pc = "done" /\ analyses[1].file = cleanRuns[r].file
        /\ removerDom.download.of = cleanRuns[r].file
        /\ removerDom.original # cleanRuns[r].file

\* a run that has disabled the button and has not ended
InProgress(r) ==
    cleanRuns[r].pc \in {"reading", "loading", "encoding", "verifying", "hung"}

\* C23: every run that disables the clean button eventually re-enables it.
C23_ButtonReenabled ==
    \A r \in 1..MaxCleanRuns :
        (cleanRuns[r].pc = "reading") ~>
            (~InProgress(r) /\ removerDom.button = "enabled")

\* the read of the cleaned file failed during verification and the button
\* stays disabled
C23_ButtonStuck ==
    \E r \in 1..MaxCleanRuns :
        /\ cleanRuns[r].pc = "hung"
        /\ removerDom.button = "disabled"

\* C25: at most one cleanMetadata run is in progress, and the button is
\* disabled exactly while one is; the cleaned file stored last was written by
\* a run that is not behind any run in progress.
C25_OneRunAtATime ==
    /\ \A r, q \in 1..MaxCleanRuns : (InProgress(r) /\ InProgress(q)) => r = q
    /\ (\E r \in 1..MaxCleanRuns : InProgress(r)) <=> removerDom.button = "disabled"
    /\ \A r \in 1..MaxCleanRuns :
          InProgress(r) => remover.cleanedFile.run <= r

\* a second run was started after the first had ended
C25_Witness ==
    /\ cleanRuns[1].pc \in {"done", "failed"}
    /\ InProgress(2)
    /\ removerDom.button = "disabled"

\* C27: at most one object URL that displayResults created for a cleaned file
\* is unrevoked.
C27_OneDownloadUrl == Cardinality(removerDom.liveUrls) <= 1

\* a cleaned file was downloaded and its URL released
C27_ReleasedByDownload ==
    /\ removerDom.download.run # 0
    /\ removerDom.liveUrls = {}

----------------------------------------------------------------------------
(* Claims about the name of the cleaned file, checked under SpecNaming.     *)

\* the last extension of a name: what follows its last dot, nothing when the
\* name has no dot
ExtensionOf(name) ==
    IF \E i \in 1..Len(name) : name[i] = "."
    THEN SubSeq(name, lastIndexOf(name, ".") + 2, Len(name))
    ELSE <<>>

\* the name without its last extension and the dot before it
StemOf(name) ==
    IF \E i \in 1..Len(name) : name[i] = "."
    THEN SubSeq(name, 1, lastIndexOf(name, "."))
    ELSE name

\* C16: for every file name, the cleaned file is named
\* <original-stem>_cleaned.<ext>, the stem being the name without its last
\* extension and ext that extension; also for names without a dot, names that
\* start or end with a dot, names with several dots and upper-case extensions.
C16_CleanedNameIsStemAndExtension ==
    cleanedName # <<>>
    => cleanedName = StemOf(fileName) \o <<"_cleaned.">> \o ExtensionOf(fileName)

\* the same, for the names whose last dot is neither their first nor their
\* last character and whose extension has no upper-case letter, and for the
\* names without a dot
C16_HoldsForOrdinaryNames ==
    (/\ cleanedName # <<>>
     /\ \/ lastIndexOf(fileName, ".") = -1
        \/ /\ lastIndexOf(fileName, ".") >= 1
           /\ lastIndexOf(fileName, ".") + 1 < Len(fileName)
           /\ \A k \in 1..Len(ExtensionOf(fileName)) : ExtensionOf(fileName)[k] # "J")
    => cleanedName = StemOf(fileName) \o <<"_cleaned.">> \o ExtensionOf(fileName)

\* the name '.a' was cleaned into '_cleaned.', its extension lost
C16_ExtensionLost ==
    /\ fileName = <<".", "a">>
    /\ cleanedName = <<"_cleaned.">>

----------------------------------------------------------------------------
(* Claims about the size comparison, checked under SpecSummary.            *)

\* 100 * (original - cleaned) / original to 2 decimals, for original > 0
PercentOf(original, cleaned) ==
    AbsOfFixed(ToFixed(Fin(100 * (original - cleaned), original), 2))

\* C28: whenever the summary reports 'File size reduced by p%', the cleaned
\* file is not larger than the original and p is
\* 100 * (original - cleaned) / original, finite and between 0 and 100.
C28_ReductionIsAReduction ==
    percentShown # NotCalled =>
        /\ sizes.cleaned <= sizes.original
        /\ IsFiniteNum(percentShown)
        /\ percentShown = PercentOf(sizes.original, sizes.cleaned)
        /\ percentShown.v.n >= 0
        /\ percentShown.v.n <= 100 * percentShown.v.d

\* the figure is right whenever the cleaned file is not the larger one
C28_RightForSmallerFiles ==
    (percentShown # NotCalled /\ sizes.cleaned <= sizes.original) =>
        /\ IsFiniteNum(percentShown)
        /\ percentShown = PercentOf(sizes.original, sizes.cleaned)
        /\ percentShown.v.n >= 0
        /\ percentShown.v.n <= 100 * percentShown.v.d

\* a cleaned file of 3 bytes for an original of 2 is reported as 'reduced by
\* 50%'
C28_GrowthShownAsReduction ==
    /\ sizes = [original |-> 2, cleaned |-> 3]
    /\ percentShown = Num(50)

\* an original of 0 bytes is reported as 'reduced by Infinity%'
C28_InfinitePercent ==
    /\ sizes.original = 0
    /\ percentShown = Infinity

----------------------------------------------------------------------------
(* Claims about the two variants of formatGPSCoordinate, checked under     *)
(* SpecVariants.                                                            *)

\* a triple of pairs of integers, zero denominators among them
IsPairTriple(c) ==
    /\ IsTriple(c)
    /\ \A i \in 1..3 : /\ IsArray(c.v.a[i]) /\ Len(c.v.a[i].v.a) = 2
                       /\ IsFiniteNum(c.v.a[i].v.a[1]) /\ c.v.a[i].v.a[1].v.d = 1
                       /\ IsFiniteNum(c.v.a[i].v.a[2]) /\ c.v.a[i].v.a[2].v.d = 1

\* the simple variant's text is the richer variant's text before its decimal
SameSexagesimal ==
    /\ fmtOut.t = "text"
    /\ simpleOut.t = "dms"
    /\ simpleOut.v.degrees = fmtOut.v.degrees
    /\ simpleOut.v.minutes = fmtOut.v.minutes
    /\ simpleOut.v.seconds = fmtOut.v.seconds

\* C30: for every triple of rational pairs, zero denominators included, the
\* simple variant returns the D M' S.SS" text of the richer variant, and
\* neither throws.
C30_VariantsAgree ==
    (fmtOut # NotCalled /\ simpleOut # NotCalled /\ IsPairTriple(coord)) =>
        SameSexagesimal

\* the variants agree on the triples whose denominators are not 0
C30_AgreeOnNonZeroDenominators ==
    (fmtOut # NotCalled /\ simpleOut # NotCalled /\ IsRationalTriple(coord)) =>
        SameSexagesimal

\* [[1,0],[0,1],[0,1]]: Infinity degrees in the simple variant, 0 in the
\* richer one
C30_ZeroDenominatorDiffers ==
    /\ coord = Arr(<<Arr(<<Num(1), Num(0)>>), Arr(<<Num(0), Num(1)>>),
                     Arr(<<Num(0), Num(1)>>)>>)
    /\ fmtOut # NotCalled /\ fmtOut.t = "text" /\ fmtOut.v.degrees = Num(0)
    /\ simpleOut # NotCalled /\ simpleOut.t = "dms"
    /\ simpleOut.v.degrees = Infinity

====
